---- MODULE Spec2Model ----
(***************************************************************************)
(* Model of the crawl-and-sync pipeline of steamgame_crawling:             *)
(*   - the two Source Clients (fetch_steam_game_data.py,                   *)
(*     single_game_crawler_minimal.py): attempt loop with backoff;         *)
(*   - the Synchronizer (database/inserter.py) over the store of           *)
(*     database/models.py;                                                 *)
(*   - the batch orchestrator main_with_batch (run_save_all_games.py).     *)
(* The specifications share the variables:                                 *)
(*   SpecFetch  one fetch call of one client, attempt by attempt;          *)
(*   SpecSync   sync_batch calls on arbitrary batches;                     *)
(*   SpecSyncWide  sync calls on single records of wider domains;          *)
(*   Spec       one run of main_with_batch over an ID stream;              *)
(*   SpecSignal such a run with a termination signal at any point;         *)
(*   SpecRace   API sync calls with a concurrent writer;                   *)
(*   SpecSingle one run of main_without_batch over an ID stream;           *)
(*   SpecSyncSparse  page sync calls on records with empty child data;     *)
(*   SpecTags   one run of SteamTagCrawler.crawl_all_games (crawler.py).   *)
(***************************************************************************)
EXTENDS Integers, Sequences, FiniteSets, TLC

VARIABLES
    \* ---- one fetch call (SpecFetch) ----
    client,          \* "api" (get_steam_game_info_api) or "page" (get_minimal_game_info)
    max_retries,     \* the max_retries argument
    attempt,         \* loop variable of `for attempt in range(max_retries + 1)`
    replies,         \* what the remote answered to each attempt so far
    sleeps,          \* the delays passed to asyncio.sleep, in order
    fetch_result,    \* "running", or the 'error' of the returned dict / "success"
    \* ---- the persistent store and the sync calls made on it (SpecSync, Spec) ----
    store,           \* the committed rows of games, game_genres, game_tags,
                     \* game_reviews, game_pricing
    last_call,       \* the last insert_steam_*_games_batch call: arguments and outcome
    repeated,        \* the last call repeated the call before it (same function,
                     \* same batch) and neither met a persistence fault
    ncalls,          \* number of sync calls made
    \* ---- one run of main_with_batch (Spec) ----
    app_ids,         \* the ID stream (argument)
    batch_size,      \* argument
    minimum_reviews, \* argument: None or a floor
    i,               \* position in app_ids of the ID being processed (from 1)
    pc,              \* the statement main_with_batch is at
    crawling_result, \* what the page client returned for app_ids[i]
    api_result,      \* what the API client returned for app_ids[i]
    api_batch,       \* buffer of API records
    crawling_batch,  \* buffer of page records
    global_failed_games,    \* the failure map: app_id -> [type, error]
    processed_count,
    api_success_count,
    crawling_success_count,
    ledger,          \* the failure file written by save_failed_games_to_file
    \* ---- observations of the run ----
    calls,           \* the client calls made, in order: [client, app_id, result]
    accepted,        \* the IDs whose records were appended to the buffers, in order
    handed,          \* the IDs of the records passed to each sync function
    \* ---- one run of SteamTagCrawler.crawl_all_games (SpecTags) ----
    all_game_ids,    \* what load_game_ids_from_csv returned
    tag_batch_size,  \* the batch_size argument of crawl_all_games
    progress,        \* data/crawling_progress.json: [completed_ids, failed_ids]
    loaded,          \* what load_progress returned at the start of the run
    completed_ids,
    failed_ids,
    remaining_ids,
    tag_i,           \* loop variable i of crawl_all_games (0-based offset)
    all_results,     \* the app_ids of the results in all_results
    fetched,         \* the IDs passed to crawl_batch, in order
    tag_pc           \* the statement crawl_all_games is at

fetchVars == <<client, max_retries, attempt, replies, sleeps, fetch_result>>
syncVars == <<store, last_call, repeated, ncalls>>
runVars == <<app_ids, batch_size, minimum_reviews, i, pc, crawling_result, api_result,
             api_batch, crawling_batch, global_failed_games, processed_count,
             api_success_count, crawling_success_count, ledger, calls, accepted, handed>>
tagVars == <<all_game_ids, tag_batch_size, progress, loaded, completed_ids, failed_ids,
             remaining_ids, tag_i, all_results, fetched, tag_pc>>

\* Python's None in a text column or field, in a count string, in a number.
None == "None"
NoCount == <<>>
NoInt == 0 - 1

(***************************************************************************)
(* Bounds                                                                  *)
(***************************************************************************)
MaxRetries == 3
\* IDs of the model: 1..MaxId
MaxId == 2
\* longest batch handed to a sync call in SpecSync
MaxBatch == 2
\* number of sync calls of one behaviour of SpecSync
MaxCalls == 2
\* IDs of the tag crawler's CSV file: 1..MaxTagId
MaxTagId == 3
\* largest batch_size of crawl_all_games
MaxTagBatch == 2

(***************************************************************************)
(* Source Clients                                                          *)
(***************************************************************************)
\* What one request can come back with. status 0: the request (or the decoding
\* of its body) raised an exception; exc says whether str(e) contains "HTTP"
\* and one of the throttling codes. body is looked at for status 200 only.
\* gate: the requests handle_age_check added to the GET of the attempt when
\* the 200 answer was an age gate: none (no age gate), its GET, or its GET and
\* its POST; an exception can still follow them in the same attempt.
Statuses == {200, 403, 404, 429, 502, 503, 504}

Replies ==
    [status : Statuses \ {200}, body : {"none"}, exc : {"none"}, gate : {0}]
      \cup [status : {200}, body : {"valid", "absent"}, exc : {"none"}, gate : 0..2]
      \cup [status : {200}, body : {"agegate_unresolved"}, exc : {"none"}, gate : 1..2]
      \cup [status : {0}, body : {"none"}, exc : {"http_text", "other"}, gate : 0..2]

\* The API client has no age gate.
ApiReplies == {reply \in Replies : reply.gate = 0}

\* The HTTP requests of one attempt.
RequestsOf(c, reply) == IF c = "page" THEN 1 + reply.gate ELSE 1

\* The HTTP requests of the attempts rs of a call.
RECURSIVE Requests(_, _)
Requests(c, rs) ==
    IF rs = <<>> THEN 0 ELSE RequestsOf(c, Head(rs)) + Requests(c, Tail(rs))

ApiThrottleStatuses == {403, 429, 503, 502, 504}
PageThrottleStatuses == {429, 503, 502, 504}

RECURSIVE Pow2(_)
Pow2(k) == IF k = 0 THEN 1 ELSE 2 * Pow2(k - 1)

BaseDelay == 2

\* Variant: a delay growing linearly with the attempt.
BackoffDelayLinear(k) == BaseDelay * (k + 1)

\* delay = 2 * (2 ** attempt)
BackoffDelay(k) == BaseDelay * Pow2(k)

\* Variant: the except clause handles the retryable exceptions and the last
\* attempt only; any other exception leaves the function.
ApiAttemptRaising(reply, k, n) ==
    IF reply.status = 0
    THEN IF k < n /\ reply.exc = "http_text"
         THEN [ret |-> FALSE, error |-> "", delay |-> BackoffDelay(k)]
         ELSE IF k = n
         THEN [ret |-> TRUE, error |-> "exception", delay |-> 0]
         ELSE [ret |-> TRUE, error |-> "raised", delay |-> 0]
    ELSE IF reply.status = 200
    THEN [ret |-> TRUE, error |-> "success", delay |-> 0]
    ELSE IF reply.status \in ApiThrottleStatuses
    THEN IF k < n
         THEN [ret |-> FALSE, error |-> "", delay |-> BackoffDelay(k)]
         ELSE [ret |-> TRUE, error |-> "rate_limit_exceeded", delay |-> 0]
    ELSE [ret |-> TRUE, error |-> "http_error", delay |-> 0]

\* One iteration of the attempt loop of get_steam_game_info_api: either the
\* function returns (ret) or it sleeps `delay` and continues with the next
\* attempt.
ApiAttempt(reply, k, n) ==
    IF reply.status = 0
    THEN \* except Exception as e
         IF k < n /\ reply.exc = "http_text"
         THEN [ret |-> FALSE, error |-> "", delay |-> BackoffDelay(k)]
         ELSE [ret |-> TRUE, error |-> "exception", delay |-> 0]
    ELSE IF reply.status = 200
    THEN \* 'data': data.get(str(app_id),{}).get('data',{}) may be empty
         [ret |-> TRUE, error |-> "success", delay |-> 0]
    ELSE IF reply.status \in ApiThrottleStatuses
    THEN IF k < n
         THEN [ret |-> FALSE, error |-> "", delay |-> BackoffDelay(k)]
         ELSE [ret |-> TRUE, error |-> "rate_limit_exceeded", delay |-> 0]
    ELSE [ret |-> TRUE, error |-> "http_error", delay |-> 0]

\* Variant: a page without the title element is taken for a transient failure.
PageAttemptRetryingInvalid(reply, k, n) ==
    IF reply.status = 0
    THEN IF k < n
         THEN [ret |-> FALSE, error |-> "", delay |-> BackoffDelay(k)]
         ELSE [ret |-> TRUE, error |-> "exception", delay |-> 0]
    ELSE IF reply.status = 200
    THEN IF reply.body = "agegate_unresolved"
         THEN [ret |-> TRUE, error |-> "age_verification_failed", delay |-> 0]
         ELSE IF reply.body = "absent"
         THEN IF k < n
              THEN [ret |-> FALSE, error |-> "", delay |-> BackoffDelay(k)]
              ELSE [ret |-> TRUE, error |-> "invalid_game_page", delay |-> 0]
         ELSE [ret |-> TRUE, error |-> "success", delay |-> 0]
    ELSE IF reply.status \in PageThrottleStatuses
    THEN IF k < n
         THEN [ret |-> FALSE, error |-> "", delay |-> BackoffDelay(k)]
         ELSE [ret |-> TRUE, error |-> "rate_limit_exceeded", delay |-> 0]
    ELSE [ret |-> TRUE, error |-> "http_error", delay |-> 0]

\* One iteration of the attempt loop of MinimalGameCrawler.get_minimal_game_info.
PageAttempt(reply, k, n) ==
    IF reply.status = 0
    THEN IF k < n
         THEN [ret |-> FALSE, error |-> "", delay |-> BackoffDelay(k)]
         ELSE [ret |-> TRUE, error |-> "exception", delay |-> 0]
    ELSE IF reply.status = 200
    THEN IF reply.body = "agegate_unresolved"
         THEN [ret |-> TRUE, error |-> "age_verification_failed", delay |-> 0]
         ELSE IF reply.body = "absent"
         THEN [ret |-> TRUE, error |-> "invalid_game_page", delay |-> 0]
         ELSE [ret |-> TRUE, error |-> "success", delay |-> 0]
    ELSE IF reply.status \in PageThrottleStatuses
    THEN IF k < n
         THEN [ret |-> FALSE, error |-> "", delay |-> BackoffDelay(k)]
         ELSE [ret |-> TRUE, error |-> "rate_limit_exceeded", delay |-> 0]
    ELSE [ret |-> TRUE, error |-> "http_error", delay |-> 0]

\* Variant: the loop allows one attempt more than max_retries + 1.
FetchStepOneMore(c, reply) ==
    LET r == IF c = "api" THEN ApiAttempt(reply, attempt, max_retries + 1)
                          ELSE PageAttempt(reply, attempt, max_retries + 1)
    IN /\ client = c
       /\ fetch_result = "running"
       /\ attempt <= max_retries + 1
       /\ replies' = Append(replies, reply)
       /\ IF r.ret
          THEN /\ fetch_result' = r.error
               /\ UNCHANGED <<attempt, sleeps>>
          ELSE /\ sleeps' = Append(sleeps, r.delay)
               /\ attempt' = attempt + 1
               /\ UNCHANGED fetch_result
       /\ UNCHANGED <<client, max_retries>>
       /\ UNCHANGED <<syncVars, runVars, tagVars>>

\* The loop body as a step of the running call.
FetchStep(c, reply) ==
    LET r == IF c = "api" THEN ApiAttempt(reply, attempt, max_retries)
                          ELSE PageAttempt(reply, attempt, max_retries)
    IN /\ client = c
       /\ fetch_result = "running"
       /\ attempt <= max_retries
       /\ replies' = Append(replies, reply)
       /\ IF r.ret
          THEN /\ fetch_result' = r.error
               /\ UNCHANGED <<attempt, sleeps>>
          ELSE /\ sleeps' = Append(sleeps, r.delay)
               /\ attempt' = attempt + 1
               /\ UNCHANGED fetch_result
       /\ UNCHANGED <<client, max_retries>>
       /\ UNCHANGED <<syncVars, runVars, tagVars>>

ApiRequest == \E reply \in ApiReplies : FetchStep("api", reply)

PageRequest == \E reply \in Replies : FetchStep("page", reply)

\* The statement after the loop: return {'error': 'unknown'}.
FetchFallThrough ==
    /\ fetch_result = "running"
    /\ attempt > max_retries
    /\ fetch_result' = "unknown"
    /\ UNCHANGED <<client, max_retries, attempt, replies, sleeps>>
    /\ UNCHANGED <<syncVars, runVars, tagVars>>

(***************************************************************************)
(* Records handed to the Synchronizer                                      *)
(***************************************************************************)
AppIds == 1..MaxId

\* Structured-source payloads (the 'data' object of appdetails). Profiles:
\* every optional field filled ("full", and "alt" with other values), every
\* optional field empty or absent ("blank").
ApiProfiles == {"full", "blank"}

\* The names (titles) the sources show for an ID: ID 1 is seen under two
\* titles, the other IDs under one.
NamesOf(id) == IF id = 1 THEN {"CS", "CS2"} ELSE {"Portal"}

SteamData(id, name, p) ==
    [steam_appid |-> id, type |-> "game", name |-> name,
     short_description |-> CASE p = "full" -> "A shooter" [] p = "alt" -> "A free shooter" [] OTHER -> "",
     detailed_description |-> CASE p = "full" -> "<p>About</p>" [] p = "alt" -> "<h1>New</h1>" [] OTHER -> "",
     release_date |-> CASE p = "full" -> "Feb 24, 2022" [] p = "alt" -> "25 Mar, 2015" [] OTHER -> "",
     developers |-> CASE p = "full" -> <<"Ubisoft">> [] p = "alt" -> <<"Valve", "Hidden Path">> [] OTHER -> <<>>,
     publishers |-> CASE p = "full" -> <<"Ubisoft">> [] p = "alt" -> <<"Valve">> [] OTHER -> <<>>,
     header_image |-> CASE p = "full" -> "header1.jpg" [] p = "alt" -> "header2.jpg" [] OTHER -> "",
     pc_minimum |-> CASE p = "full" -> "<strong>Minimum:</strong><li>OS: 7</li><li>RAM: 4 GB</li>" [] p = "alt" -> "<li>OS: 10</li>" [] OTHER -> "",
     pc_recommended |-> CASE p = "full" -> "<strong>Recommended:</strong><li>OS: 10</li><li>RAM: 8 GB</li>" [] p = "alt" -> "<li>OS: 11</li>" [] OTHER -> "",
     metacritic_score |-> CASE p = "full" -> 90 [] p = "alt" -> 80 [] OTHER -> NoInt,
     genres |-> CASE p = "full" -> <<"Action">> [] p = "alt" -> <<"Action", "Indie">> [] OTHER -> <<>>]

ApiRecords ==
    UNION {{SteamData(id, name, p) : name \in NamesOf(id), p \in ApiProfiles} : id \in AppIds}

\* Page-source payloads (minimal_info). The counts are the strings the page
\* shows, written as sequences of characters with thousands separators.
ReviewInfos ==
    {[recent_reviews |-> "Mostly Positive", all_reviews |-> "Very Positive",
      recent_review_count |-> <<"8", ",", "0", "0", "0">>,
      total_review_count |-> <<"5", "0", "0", ",", "0", "0", "0">>,
      recent_positive_percent |-> 75, total_positive_percent |-> 88],
     [recent_reviews |-> None, all_reviews |-> "Mixed",
      recent_review_count |-> NoCount,
      total_review_count |-> <<"5", "0">>,
      recent_positive_percent |-> NoInt, total_positive_percent |-> 60],
     [recent_reviews |-> None, all_reviews |-> None,
      recent_review_count |-> NoCount, total_review_count |-> NoCount,
      recent_positive_percent |-> NoInt, total_positive_percent |-> NoInt]}

ReviewOf(p) ==
    CHOOSE r \in ReviewInfos :
        r.all_reviews = (CASE p = "hit" -> "Very Positive" [] p = "low" -> "Mixed" [] OTHER -> None)

PriceOf(p) ==
    CASE p = "hit" -> [current_price |-> "$9.99", original_price |-> "$19.99",
                       discount_percent |-> 50, is_free |-> FALSE]
      [] p = "low" -> [current_price |-> "Free", original_price |-> None,
                       discount_percent |-> NoInt, is_free |-> TRUE]
      [] OTHER -> [current_price |-> None, original_price |-> None,
                   discount_percent |-> NoInt, is_free |-> FALSE]

CrawlProfiles == {"hit", "low", "bare"}
CrawlTimes == {1}

CrawlData(id, title, p, t) ==
    [app_id |-> id, crawled_at |-> t, title |-> title,
     user_tags |-> CASE p = "hit" -> <<"FPS", "Multiplayer">>
                     [] p = "low" -> <<"Multiplayer", "FPS">>
                     [] OTHER -> <<>>,
     review_info |-> ReviewOf(p),
     localized_price |-> PriceOf(p)]

CrawlRecords ==
    UNION {{CrawlData(id, title, p, t) : title \in NamesOf(id), p \in CrawlProfiles,
                                        t \in CrawlTimes} : id \in AppIds}

(***************************************************************************)
(* Conversions of database/inserter.py                                     *)
(***************************************************************************)
\* convert_detailed_description: HTML to text, on the payloads of the model.
convert_detailed_description(html) ==
    CASE html = "" -> ""
      [] html = "<p>About</p>" -> "About"
      [] html = "<h1>New</h1>" -> "New"

\* convert_system_requirements: section titles and list items; list items
\* without a section title are skipped and the fallback, finding no
\* 'Minimum:'/'Recommended:' in the text, yields "".
convert_system_requirements(html) ==
    CASE html = "" -> ""
      [] html = "<strong>Minimum:</strong><li>OS: 7</li><li>RAM: 4 GB</li>"
           -> "Minimum: - OS: 7 - RAM: 4 GB"
      [] html = "<strong>Recommended:</strong><li>OS: 10</li><li>RAM: 8 GB</li>"
           -> "Recommended: - OS: 10 - RAM: 8 GB"
      [] html = "<li>OS: 10</li>" -> ""
      [] html = "<li>OS: 11</li>" -> ""

\* parse_steam_release_date
parse_steam_release_date(date_str) ==
    CASE date_str = "" -> None
      [] date_str = "Feb 24, 2022" -> "2022-02-24"
      [] date_str = "25 Mar, 2015" -> "2015-03-25"

\* ', '.join(names)
RECURSIVE JoinNames(_)
JoinNames(names) ==
    IF Len(names) = 0 THEN ""
    ELSE IF Len(names) = 1 THEN names[1]
    ELSE names[1] \o ", " \o JoinNames(Tail(names))

\* The column values insert_steam_api_game and _bulk_insert_new_api_games
\* compute from a payload (the two functions repeat the same statements).
ApiRow(steam_data) ==
    [title |-> steam_data.name,
     description |-> steam_data.short_description,
     detailed_description |-> convert_detailed_description(steam_data.detailed_description),
     release_date |-> parse_steam_release_date(steam_data.release_date),
     developer |-> IF steam_data.developers # <<>> THEN JoinNames(steam_data.developers) ELSE None,
     publisher |-> IF steam_data.publishers # <<>> THEN JoinNames(steam_data.publishers) ELSE None,
     header_image_url |-> IF steam_data.header_image # "" THEN steam_data.header_image ELSE None,
     system_requirements_minimum |->
         IF steam_data.pc_minimum # "" THEN convert_system_requirements(steam_data.pc_minimum) ELSE None,
     system_requirements_recommended |->
         IF steam_data.pc_recommended # "" THEN convert_system_requirements(steam_data.pc_recommended) ELSE None]

Digits == {"0", "1", "2", "3", "4", "5", "6", "7", "8", "9"}

DigitValue(c) ==
    CASE c = "0" -> 0 [] c = "1" -> 1 [] c = "2" -> 2 [] c = "3" -> 3 [] c = "4" -> 4
      [] c = "5" -> 5 [] c = "6" -> 6 [] c = "7" -> 7 [] c = "8" -> 8 [] c = "9" -> 9

DigitChar(d) == CHOOSE c \in Digits : DigitValue(c) = d

\* str.replace(ch, '')
RECURSIVE RemoveChar(_, _)
RemoveChar(s, ch) ==
    IF s = <<>> THEN <<>>
    ELSE IF Head(s) = ch THEN RemoveChar(Tail(s), ch)
    ELSE <<Head(s)>> \o RemoveChar(Tail(s), ch)

\* int() of a string of decimal digits
RECURSIVE DigitsToInt(_)
DigitsToInt(s) ==
    IF s = <<>> THEN 0 ELSE 10 * DigitsToInt(SubSeq(s, 1, Len(s) - 1)) + DigitValue(s[Len(s)])

\* str() of a natural number
RECURSIVE IntToDigits(_)
IntToDigits(n) ==
    IF n < 10 THEN <<DigitChar(n)>> ELSE IntToDigits(n \div 10) \o <<DigitChar(n % 10)>>

AllDigits(s) == s # <<>> /\ \A j \in 1..Len(s) : s[j] \in Digits

\* parse_review_count_to_string: "6,337" -> "6337"; None when the value is
\* empty or int() raises.
parse_review_count_to_string(count_str) ==
    IF count_str = NoCount THEN NoCount
    ELSE LET clean == RemoveChar(count_str, ",")
         IN IF AllDigits(clean) THEN IntToDigits(DigitsToInt(clean)) ELSE NoCount

(***************************************************************************)
(* The store (database/models.py) and the session of a GameInserter        *)
(***************************************************************************)
\* Columns of the mapped class Game. The inserter also names
\* metacritic_score and updated_at, which Game does not have.
GameColumns ==
    {"app_id", "title", "description", "detailed_description", "release_date",
     "developer", "publisher", "crawled_at", "header_image_url",
     "system_requirements_minimum", "system_requirements_recommended"}

\* The columns of a games row that the inserter writes.
GameFields ==
    {"title", "description", "detailed_description", "release_date", "developer",
     "publisher", "header_image_url", "system_requirements_minimum",
     "system_requirements_recommended"}

\* games, reviews, pricing: functions from the IDs that have a row to the row;
\* genres: set of <<app_id, genre_name>> (unique_app_genre);
\* tags: set of <<app_id, tag_name, tag_order>>.
EmptyStore ==
    [games |-> <<>>, genres |-> {}, tags |-> {}, reviews |-> <<>>, pricing |-> <<>>]

\* GameInserter.__enter__: a session on the committed store. db is what the
\* session's transaction sees, writes counts the rows its statements insert,
\* update or delete, active is FALSE once a flush or bulk insert has failed
\* (the transaction is then rolled back and every later statement and the
\* commit raise).
BeginSession(committed) ==
    [base |-> committed, db |-> committed, active |-> TRUE, writes |-> 0]

\* A statement of the session raised: its transaction is rolled back.
FailSession(sess) ==
    [sess EXCEPT !.db = sess.base, !.active = FALSE, !.writes = 0]

SeqRange(s) == {s[j] : j \in 1..Len(s)}

\* session.bulk_insert_mappings(Game, game_objects); keys of a mapping that
\* are no column of Game are ignored. Raises on a primary-key collision or on
\* a fault of the database.
BulkInsertGames(sess, game_objects, fault_here) ==
    IF ~sess.active \/ fault_here
       \/ \E g \in SeqRange(game_objects) : g.app_id \in DOMAIN sess.db.games
    THEN [sess |-> FailSession(sess), raised |-> TRUE]
    ELSE [sess |-> [sess EXCEPT
                      !.db.games = [id \in {g.app_id : g \in SeqRange(game_objects)} |->
                                       (CHOOSE g \in SeqRange(game_objects) : g.app_id = id).row]
                                   @@ sess.db.games,
                      !.writes = sess.writes + Len(game_objects)],
          raised |-> FALSE]

\* session.bulk_insert_mappings(GameGenre, genre_objects)
BulkInsertGenres(sess, genre_objects, fault_here) ==
    IF ~sess.active \/ fault_here \/ genre_objects \cap sess.db.genres # {}
    THEN [sess |-> FailSession(sess), raised |-> TRUE]
    ELSE [sess |-> [sess EXCEPT !.db.genres = sess.db.genres \cup genre_objects,
                                !.writes = sess.writes + Cardinality(genre_objects)],
          raised |-> FALSE]

\* GameInserter.__exit__ without an exception in the block: session.commit(),
\* then session.close(). The commit raises when the transaction was rolled
\* back before, or on a fault; close() is then not reached and nothing of the
\* block is committed.
CommitSession(sess, fault_here) ==
    IF sess.active /\ ~fault_here
    THEN [store |-> sess.db, raised |-> FALSE, writes |-> sess.writes]
    ELSE [store |-> sess.base, raised |-> TRUE, writes |-> 0]

(***************************************************************************)
(* Synchronizer, structured source (API)                                   *)
(***************************************************************************)
\* new_genres of _update_genres and the genre rows of the bulk insert: the
\* non-empty 'description' values.
GenreNames(steam_data) == {g \in SeqRange(steam_data.genres) : g # ""}

\* The genres stored for app_id.
ExistingGenres(sess, app_id) == {g[2] : g \in {x \in sess.db.genres : x[1] = app_id}}

\* genres_to_delete are deleted, genres_to_add are added.
ReplaceGenres(sess, app_id, genres_to_delete, genres_to_add) ==
    [sess EXCEPT
       !.db.genres = (sess.db.genres \ {<<app_id, n>> : n \in genres_to_delete})
                        \cup {<<app_id, n>> : n \in genres_to_add},
       !.writes = sess.writes + Cardinality(genres_to_delete) + Cardinality(genres_to_add)]

\* GameInserter._update_genres
update_genres(sess, app_id, new_genres) ==
    ReplaceGenres(sess, app_id, ExistingGenres(sess, app_id) \ new_genres,
                  new_genres \ ExistingGenres(sess, app_id))

\* The per-field comparison of insert_steam_api_game: a column is assigned
\* when the incoming value differs from the stored one.
DiffUpdate(old, new) ==
    [f \in GameFields |-> IF old[f] # new[f] THEN new[f] ELSE old[f]]

\* session.add(game) of a new row
AddGameRow(sess, app_id, row) ==
    [sess EXCEPT !.db.games = (app_id :> row) @@ sess.db.games,
                 !.writes = sess.writes + 1]

\* The assignments to the columns of existing_game.
AssignGameRow(sess, app_id, upd) ==
    [sess EXCEPT !.db.games[app_id] = upd,
                 !.writes = sess.writes + (IF upd # sess.db.games[app_id] THEN 1 ELSE 0)]

\* insert_steam_api_game from the comparison of metacritic_score on:
\* existing_game.metacritic_score is no attribute of Game, reading it raises
\* after the assignments before it, which stay pending in the session; the
\* function returns False and _update_genres is not reached.
FinishApiGame(s1, steam_data) ==
    IF "metacritic_score" \notin GameColumns
    THEN [sess |-> s1, ok |-> FALSE]
    ELSE [sess |-> update_genres(s1, steam_data.steam_appid, GenreNames(steam_data)),
          ok |-> TRUE]

\* GameInserter.insert_steam_api_game. ok is the returned bool.
insert_steam_api_game(sess, steam_data) ==
    IF ~sess.active
    THEN \* the query raises; except Exception: return False
         [sess |-> sess, ok |-> FALSE]
    ELSE IF steam_data.steam_appid \notin DOMAIN sess.db.games
    THEN \* Game(..., metacritic_score=...): not a column of Game, the
         \* constructor raises; return False
         IF "metacritic_score" \notin GameColumns
         THEN [sess |-> sess, ok |-> FALSE]
         ELSE FinishApiGame(AddGameRow(sess, steam_data.steam_appid, ApiRow(steam_data)),
                            steam_data)
    ELSE FinishApiGame(
             AssignGameRow(sess, steam_data.steam_appid,
                           DiffUpdate(sess.db.games[steam_data.steam_appid], ApiRow(steam_data))),
             steam_data)

\* game_objects and genre_objects of _bulk_insert_new_api_games
ApiGameObjects(new_games_data) ==
    [j \in 1..Len(new_games_data) |->
        [app_id |-> new_games_data[j].steam_appid, row |-> ApiRow(new_games_data[j])]]

ApiGenreObjects(new_games_data) ==
    UNION {{<<d.steam_appid, n>> : n \in GenreNames(d)} : d \in SeqRange(new_games_data)}

\* A bulk insert that comes after another one in the same try block: it is
\* not reached when the one before raised, and skipped when it has no rows.
GenresAfter(r, genre_objects, fault_here) ==
    IF r.raised \/ genre_objects = {} THEN r
    ELSE BulkInsertGenres(r.sess, genre_objects, fault_here)

\* return len(game_objects), [] or, from the except clause, return 0, []
BulkReturn(r, n) == [sess |-> r.sess, count |-> IF r.raised THEN 0 ELSE n]

\* GameInserter._bulk_insert_new_api_games. new_fail is always [].
bulk_insert_new_api_games(sess, new_games_data, fault) ==
    BulkReturn(
        GenresAfter(
            BulkInsertGames(sess, ApiGameObjects(new_games_data), fault = "bulk_game"),
            ApiGenreObjects(new_games_data), fault = "bulk_child"),
        Len(new_games_data))

\* One round of the loop of _update_existing_*_games: r is what
\* insert_steam_*_game returned for the record of app_id.
Tally(acc, r, app_id) ==
    [sess |-> r.sess,
     success_count |-> acc.success_count + (IF r.ok THEN 1 ELSE 0),
     failed |-> IF r.ok THEN acc.failed ELSE Append(acc.failed, app_id)]

RECURSIVE UpdateApiFrom(_, _)
UpdateApiFrom(acc, existing_games_data) ==
    IF existing_games_data = <<>> THEN acc
    ELSE UpdateApiFrom(
             Tally(acc, insert_steam_api_game(acc.sess, Head(existing_games_data)),
                   Head(existing_games_data).steam_appid),
             Tail(existing_games_data))

\* GameInserter._update_existing_api_games: failed holds one entry per record
\* for which insert_steam_api_game returned False.
update_existing_api_games(sess, existing_games_data) ==
    UpdateApiFrom([sess |-> sess, success_count |-> 0, failed |-> <<>>], existing_games_data)

\* Step 1 of the hybrid batch: a record is kept when its app_id was not seen
\* before in the batch.
RECURSIVE DedupFrom(_, _, _)
DedupFrom(games_data, seen_app_ids, key) ==
    IF games_data = <<>> THEN <<>>
    ELSE IF Head(games_data)[key] \notin seen_app_ids
    THEN <<Head(games_data)>>
            \o DedupFrom(Tail(games_data), seen_app_ids \cup {Head(games_data)[key]}, key)
    ELSE DedupFrom(Tail(games_data), seen_app_ids, key)

Deduplicate(games_data, key) == DedupFrom(games_data, {}, key)

\* Variant: every record of the batch is taken for new.
NewGamesAll(sess, games_data, key) == games_data

\* Step 3 of the hybrid batch: the records whose ID has no row yet, and the
\* others.
NewGames(sess, games_data, key) ==
    SelectSeq(games_data, LAMBDA d : d[key] \notin DOMAIN sess.db.games)

ExistingGames(sess, games_data, key) ==
    SelectSeq(games_data, LAMBDA d : d[key] \in DOMAIN sess.db.games)

\* The end of the hybrid batch. With existing_fail not empty the
\* comprehension over it evaluates str(e) with e unbound: NameError, caught
\* by the outer except: return 0, []. new_fail is always empty.
HybridReturn(rn, re) ==
    [sess |-> re.sess,
     success_count |-> IF re.failed # <<>> THEN 0 ELSE rn.count + re.success_count,
     failed |-> <<>>]

\* Step 5 of the API hybrid batch, after step 4 returned rn.
ApiHybridExisting(rn, existing_games_data) ==
    HybridReturn(rn, update_existing_api_games(rn.sess, existing_games_data))

\* Steps 4 and 5 of the API hybrid batch.
ApiHybridSteps(sess, new_games_data, existing_games_data, fault) ==
    ApiHybridExisting(
        IF new_games_data # <<>>
        THEN bulk_insert_new_api_games(sess, new_games_data, fault)
        ELSE [sess |-> sess, count |-> 0],
        existing_games_data)

\* Steps 2 to 5 of the API hybrid batch on the deduplicated games_data.
ApiHybridSplit(sess, games_data, fault) ==
    ApiHybridSteps(sess, NewGames(sess, games_data, "steam_appid"),
                   ExistingGames(sess, games_data, "steam_appid"), fault)

\* GameInserter.insert_steam_api_games_hybrid_batch
insert_steam_api_games_hybrid_batch(sess, batch, fault) ==
    IF batch = <<>> THEN [sess |-> sess, success_count |-> 0, failed |-> <<>>]
    ELSE ApiHybridSplit(sess, Deduplicate(batch, "steam_appid"), fault)

\* What a `with GameInserter()` block leaves: c is the outcome of the commit
\* in __exit__, r what the block computed. raised: the exception of the
\* commit leaves the function.
CallOutcome(r, c) ==
    [store |-> c.store, raised |-> c.raised, writes |-> c.writes,
     success_count |-> r.success_count, failed |-> r.failed]

\* GameInserter.__exit__ on a block that returned: session.close() is the
\* statement after session.commit(), c the outcome of that commit; close()
\* runs iff commit() returned.
ClosedByExit(c) == ~c.raised

\* __exit__ after the block returned r
ExitInserter(r, fault) == CallOutcome(r, CommitSession(r.sess, fault = "commit"))

\* insert_steam_api_games_batch: the hybrid batch inside `with GameInserter()`.
insert_steam_api_games_batch(committed, games_data, fault) ==
    ExitInserter(insert_steam_api_games_hybrid_batch(BeginSession(committed), games_data, fault),
                 fault)

(***************************************************************************)
(* Synchronizer, page source (crawling)                                    *)
(***************************************************************************)
\* A dict without keys (review_info / localized_price absent from a record).
EmptyDict == [empty |-> TRUE]

\* description of a games row created from a page-source record
CrawlDescription == "crawled game (no API data)"

CrawlRow(crawling_data) ==
    [f \in GameFields |->
        IF f = "title" THEN crawling_data.title
        ELSE IF f = "description" THEN CrawlDescription
        ELSE None]

\* The (tag_name, tag_order) pairs of a tag list: blank names are skipped, the
\* order is the 1-based index in the list. The tag names of the model carry no
\* surrounding blanks and are shorter than the column.
TagPairs(user_tags) ==
    {<<user_tags[j], j>> : j \in {k \in 1..Len(user_tags) : user_tags[k] # ""}}

\* The game_reviews row built from review_info.
ReviewRow(review_info, crawled_at) ==
    [recent_reviews |-> review_info.recent_reviews,
     all_reviews |-> review_info.all_reviews,
     recent_review_count |-> parse_review_count_to_string(review_info.recent_review_count),
     total_review_count |-> parse_review_count_to_string(review_info.total_review_count),
     recent_positive_percent |-> review_info.recent_positive_percent,
     total_positive_percent |-> review_info.total_positive_percent,
     updated_at |-> crawled_at]

\* The game_pricing row built from localized_price.
PricingRow(localized_price, crawled_at) ==
    [current_price |-> localized_price.current_price,
     original_price |-> localized_price.original_price,
     discount_percent |-> localized_price.discount_percent,
     is_free |-> localized_price.is_free,
     updated_at |-> crawled_at]

\* A row without its timestamp: the fields review_changed / price_changed compare.
Compared(row) == [f \in DOMAIN row \ {"updated_at"} |-> row[f]]

\* The (tag_name, tag_order) pairs stored for app_id.
ExistingTags(sess, app_id) == {<<t[2], t[3]>> : t \in {x \in sess.db.tags : x[1] = app_id}}

\* Variant: the new tags are added to the stored ones, nothing is deleted.
ReplaceTagsMerging(sess, app_id, existing_tags, new_tags) ==
    IF existing_tags # new_tags
    THEN [sess EXCEPT
            !.db.tags = sess.db.tags \cup {<<app_id, t[1], t[2]>> : t \in new_tags},
            !.writes = sess.writes + Cardinality(new_tags \ existing_tags)]
    ELSE sess

\* if existing_tags != new_tags: delete every tag of app_id, add new_tags
ReplaceTags(sess, app_id, existing_tags, new_tags) ==
    IF existing_tags # new_tags
    THEN [sess EXCEPT
            !.db.tags = {x \in sess.db.tags : x[1] # app_id}
                           \cup {<<app_id, t[1], t[2]>> : t \in new_tags},
            !.writes = sess.writes + Cardinality(existing_tags) + Cardinality(new_tags)]
    ELSE sess

\* GameInserter._update_user_tags
update_user_tags(sess, app_id, user_tags) ==
    ReplaceTags(sess, app_id, ExistingTags(sess, app_id), TagPairs(user_tags))

\* Variant: a row whose compared fields are all equal is rewritten too, with
\* the new timestamp.
UpsertRowTouching(sess, table, app_id, row) ==
    IF app_id \in DOMAIN sess.db[table]
    THEN [sess EXCEPT !.db[table][app_id] = row, !.writes = sess.writes + 1]
    ELSE [sess EXCEPT !.db[table] = (app_id :> row) @@ sess.db[table],
                      !.writes = sess.writes + 1]

\* The row of app_id in a table with one row per game: updated when a
\* compared field differs, added when there is none.
UpsertRow(sess, table, app_id, row) ==
    IF app_id \in DOMAIN sess.db[table]
    THEN IF Compared(sess.db[table][app_id]) # Compared(row)
         THEN [sess EXCEPT !.db[table][app_id] = row, !.writes = sess.writes + 1]
         ELSE sess
    ELSE [sess EXCEPT !.db[table] = (app_id :> row) @@ sess.db[table],
                      !.writes = sess.writes + 1]

\* Variant: the review row is rewritten without looking at the stored one.
update_review_info_unconditional(sess, app_id, review_info, crawled_at) ==
    [sess EXCEPT !.db.reviews = (app_id :> ReviewRow(review_info, crawled_at)) @@ sess.db.reviews,
                 !.writes = sess.writes + 1]

\* GameInserter._update_review_info
update_review_info(sess, app_id, review_info, crawled_at) ==
    UpsertRow(sess, "reviews", app_id, ReviewRow(review_info, crawled_at))

\* GameInserter._update_localized_pricing
update_localized_pricing(sess, app_id, localized_price, crawled_at) ==
    UpsertRow(sess, "pricing", app_id, PricingRow(localized_price, crawled_at))

\* insert_steam_crawling_game, the games row: the title of an existing row is
\* assigned when it differs and the incoming one is not empty; a new row is
\* added.
CrawlGameStep(sess, crawling_data) ==
    IF crawling_data.app_id \in DOMAIN sess.db.games
    THEN IF sess.db.games[crawling_data.app_id].title # crawling_data.title
            /\ crawling_data.title # ""
         THEN [sess EXCEPT !.db.games[crawling_data.app_id].title = crawling_data.title,
                           !.writes = sess.writes + 1]
         ELSE sess
    ELSE AddGameRow(sess, crawling_data.app_id, CrawlRow(crawling_data))

\* Variant: the tags are replaced whatever the tag list holds.
CrawlTagsStepAlways(sess, crawling_data) ==
    update_user_tags(sess, crawling_data.app_id, crawling_data.user_tags)

\* if user_tags: self._update_user_tags(...)
CrawlTagsStep(sess, crawling_data) ==
    IF crawling_data.user_tags # <<>>
    THEN update_user_tags(sess, crawling_data.app_id, crawling_data.user_tags)
    ELSE sess

\* if review_info: self._update_review_info(...)
CrawlReviewStep(sess, crawling_data) ==
    IF crawling_data.review_info # EmptyDict
    THEN update_review_info(sess, crawling_data.app_id, crawling_data.review_info,
                            crawling_data.crawled_at)
    ELSE sess

\* if localized_price: self._update_localized_pricing(...)
CrawlPricingStep(sess, crawling_data) ==
    IF crawling_data.localized_price # EmptyDict
    THEN update_localized_pricing(sess, crawling_data.app_id, crawling_data.localized_price,
                                  crawling_data.crawled_at)
    ELSE sess

\* GameInserter.insert_steam_crawling_game. ok is the returned bool.
insert_steam_crawling_game(sess, crawling_data) ==
    IF ~sess.active
    THEN \* the query raises; except Exception: return False
         [sess |-> sess, ok |-> FALSE]
    ELSE IF crawling_data.app_id \notin DOMAIN sess.db.games /\ "updated_at" \notin GameColumns
    THEN \* Game(..., updated_at=crawled_at): not a column of Game, the
         \* constructor raises; return False
         [sess |-> sess, ok |-> FALSE]
    ELSE [sess |-> CrawlPricingStep(
                       CrawlReviewStep(
                           CrawlTagsStep(CrawlGameStep(sess, crawling_data), crawling_data),
                           crawling_data),
                       crawling_data),
          ok |-> TRUE]

\* session.bulk_insert_mappings of GameTag, GameReview or GamePricing rows.
BulkInsertTags(sess, tag_objects, fault_here) ==
    IF ~sess.active \/ fault_here
       \/ \E t \in tag_objects : \E x \in sess.db.tags : x[1] = t[1] /\ x[2] = t[2]
    THEN [sess |-> FailSession(sess), raised |-> TRUE]
    ELSE [sess |-> [sess EXCEPT !.db.tags = sess.db.tags \cup tag_objects,
                                !.writes = sess.writes + Cardinality(tag_objects)],
          raised |-> FALSE]

BulkInsertRows(sess, table, rows, fault_here) ==
    IF ~sess.active \/ fault_here \/ DOMAIN rows \cap DOMAIN sess.db[table] # {}
    THEN [sess |-> FailSession(sess), raised |-> TRUE]
    ELSE [sess |-> [sess EXCEPT !.db[table] = rows @@ sess.db[table],
                                !.writes = sess.writes + Cardinality(DOMAIN rows)],
          raised |-> FALSE]

\* game_objects, tag_objects, review_objects and pricing_objects of
\* _bulk_insert_new_crawling_games (the records of a call have distinct IDs)
CrawlGameObjects(new_games_data) ==
    [j \in 1..Len(new_games_data) |->
        [app_id |-> new_games_data[j].app_id, row |-> CrawlRow(new_games_data[j])]]

CrawlTagObjects(new_games_data) ==
    UNION {{<<d.app_id, t[1], t[2]>> : t \in TagPairs(d.user_tags)} :
              d \in SeqRange(new_games_data)}

\* The record of new_games_data with the ID app_id.
RecordOf(new_games_data, app_id) ==
    CHOOSE d \in SeqRange(new_games_data) : d.app_id = app_id

CrawlReviewObjects(new_games_data) ==
    [id \in {d.app_id : d \in {x \in SeqRange(new_games_data) : x.review_info # EmptyDict}} |->
        ReviewRow(RecordOf(new_games_data, id).review_info,
                  RecordOf(new_games_data, id).crawled_at)]

CrawlPricingObjects(new_games_data) ==
    [id \in {d.app_id : d \in {x \in SeqRange(new_games_data) : x.localized_price # EmptyDict}} |->
        PricingRow(RecordOf(new_games_data, id).localized_price,
                   RecordOf(new_games_data, id).crawled_at)]

TagsAfter(r, tag_objects, fault_here) ==
    IF r.raised \/ tag_objects = {} THEN r
    ELSE BulkInsertTags(r.sess, tag_objects, fault_here)

RowsAfter(r, table, rows, fault_here) ==
    IF r.raised \/ DOMAIN rows = {} THEN r
    ELSE BulkInsertRows(r.sess, table, rows, fault_here)

\* The bulk inserts of the child tables. A fault "bulk_child" strikes the
\* first child table that has rows to insert.
CrawlChildInserts(r, tag_objects, review_objects, pricing_objects, child) ==
    RowsAfter(
        RowsAfter(TagsAfter(r, tag_objects, child),
                  "reviews", review_objects, child /\ tag_objects = {}),
        "pricing", pricing_objects,
        child /\ tag_objects = {} /\ DOMAIN review_objects = {})

\* GameInserter._bulk_insert_new_crawling_games. new_fail is always [].
bulk_insert_new_crawling_games(sess, new_games_data, fault) ==
    BulkReturn(
        CrawlChildInserts(
            BulkInsertGames(sess, CrawlGameObjects(new_games_data), fault = "bulk_game"),
            CrawlTagObjects(new_games_data), CrawlReviewObjects(new_games_data),
            CrawlPricingObjects(new_games_data), fault = "bulk_child"),
        Len(new_games_data))

RECURSIVE UpdateCrawlingFrom(_, _)
UpdateCrawlingFrom(acc, existing_games_data) ==
    IF existing_games_data = <<>> THEN acc
    ELSE UpdateCrawlingFrom(
             Tally(acc, insert_steam_crawling_game(acc.sess, Head(existing_games_data)),
                   Head(existing_games_data).app_id),
             Tail(existing_games_data))

\* GameInserter._update_existing_crawling_games
update_existing_crawling_games(sess, existing_games_data) ==
    UpdateCrawlingFrom([sess |-> sess, success_count |-> 0, failed |-> <<>>],
                       existing_games_data)

\* Step 5 of the crawling hybrid batch, after step 4 returned rn.
CrawlingHybridExisting(rn, existing_games_data) ==
    HybridReturn(rn, update_existing_crawling_games(rn.sess, existing_games_data))

\* Steps 4 and 5 of the crawling hybrid batch.
CrawlingHybridSteps(sess, new_games_data, existing_games_data, fault) ==
    CrawlingHybridExisting(
        IF new_games_data # <<>>
        THEN bulk_insert_new_crawling_games(sess, new_games_data, fault)
        ELSE [sess |-> sess, count |-> 0],
        existing_games_data)

\* Steps 2 to 5 of the crawling hybrid batch on the deduplicated games_data.
CrawlingHybridSplit(sess, games_data, fault) ==
    CrawlingHybridSteps(sess, NewGames(sess, games_data, "app_id"),
                        ExistingGames(sess, games_data, "app_id"), fault)

\* GameInserter.insert_steam_crawling_games_hybrid_batch
insert_steam_crawling_games_hybrid_batch(sess, batch, fault) ==
    IF batch = <<>> THEN [sess |-> sess, success_count |-> 0, failed |-> <<>>]
    ELSE CrawlingHybridSplit(sess, Deduplicate(batch, "app_id"), fault)

\* insert_steam_crawling_games_batch
insert_steam_crawling_games_batch(committed, games_data, fault) ==
    ExitInserter(
        insert_steam_crawling_games_hybrid_batch(BeginSession(committed), games_data, fault),
        fault)

(***************************************************************************)
(* Sync calls on arbitrary batches                                         *)
(***************************************************************************)
\* Where the database can fail during one sync call: at a bulk insert the call
\* executes (there are NEW records; they have child rows), or at the commit.
Faults(committed, batch, key) ==
    LET new == {d \in SeqRange(batch) : d[key] \notin DOMAIN committed.games}
        children == IF key = "steam_appid"
                    THEN \E d \in new : GenreNames(d) # {}
                    ELSE new # {}
    IN {"none", "commit"} \cup (IF new # {} THEN {"bulk_game"} ELSE {})
                          \cup (IF children THEN {"bulk_child"} ELSE {})

BatchesOf(records) == UNION {[1..n -> records] : n \in 1..MaxBatch}

NoCall ==
    [fn |-> "none", batch |-> <<>>, fault |-> "none", before |-> EmptyStore,
     raised |-> FALSE, writes |-> 0, success_count |-> 0, failed |-> <<>>]

\* The effect of one insert_steam_*_games_batch call on the store, and the
\* record kept of it.
RecordCall(fn, batch, fault, r) ==
    /\ store' = r.store
    /\ last_call' = [fn |-> fn, batch |-> batch, fault |-> fault, before |-> store,
                     raised |-> r.raised, writes |-> r.writes,
                     success_count |-> r.success_count, failed |-> r.failed]
    /\ repeated' = (/\ last_call.fn = fn /\ last_call.batch = batch
                    /\ ~last_call.raised /\ last_call.fault = "none"
                    /\ fault = "none" /\ ~r.raised)
    /\ ncalls' = ncalls + 1

SyncApi ==
    /\ ncalls < MaxCalls
    /\ \E batch \in BatchesOf(ApiRecords) :
          \E fault \in Faults(store, batch, "steam_appid") :
              \E r \in {insert_steam_api_games_batch(store, batch, fault)} :
                  RecordCall("api", batch, fault, r)
    /\ UNCHANGED <<fetchVars, runVars, tagVars>>

SyncCrawl ==
    /\ ncalls < MaxCalls
    /\ \E batch \in BatchesOf(CrawlRecords) :
          \E fault \in Faults(store, batch, "app_id") :
              \E r \in {insert_steam_crawling_games_batch(store, batch, fault)} :
                  RecordCall("crawl", batch, fault, r)
    /\ UNCHANGED <<fetchVars, runVars, tagVars>>

(***************************************************************************)
(* Batch orchestrator: main_with_batch (run_save_all_games.py)             *)
(***************************************************************************)
\* max_retries of a run: 0..MaxRunRetries
MaxRunRetries == 1

\* The floors minimum_reviews can be set to (None apart).
ReviewFloors == {50, 100}

\* re.findall(r'\d+', s)[0]: the first run of digits, <<>> when there is none
RECURSIVE TakeDigits(_)
TakeDigits(s) ==
    IF s = <<>> \/ Head(s) \notin Digits THEN <<>>
    ELSE <<Head(s)>> \o TakeDigits(Tail(s))

RECURSIVE FirstDigitRun(_)
FirstDigitRun(s) ==
    IF s = <<>> THEN <<>>
    ELSE IF Head(s) \in Digits THEN TakeDigits(s)
    ELSE FirstDigitRun(Tail(s))

\* parse_review_count_to_int, on the count strings of the page
parse_review_count_to_int(count_value) ==
    IF count_value = NoCount THEN 0
    ELSE LET clean_count == RemoveChar(RemoveChar(count_value, ","), " ")
             numbers == FirstDigitRun(clean_count)
         IN IF numbers # <<>> THEN DigitsToInt(numbers) ELSE 0

\* The 'data' of a successful page fetch of app_id: the client fills in the
\* requested ID. The title is the one the page shows, which need not be the
\* 'name' of the appdetails answer.
PagePayloads(app_id) ==
    {CrawlData(app_id, "CS", p, 1) : p \in CrawlProfiles}
        \cup {CrawlData(app_id, "CS2", "hit", 1)}

\* The 'data' of an appdetails answer that has data: the remote chooses the
\* type and the steam_appid it echoes.
ApiTypes == {"game", "dlc"}

ApiPayloads == {[SteamData(e, "CS", "full") EXCEPT !.type = t] : e \in AppIds, t \in ApiTypes}

\* What get_steam_game_info_crawler_minimal_sync(app_id, n) can return: the
\* return value of the attempt that ends the loop.
PageResults(app_id, n) ==
    UNION {LET r == PageAttempt(reply, k, n)
           IN IF ~r.ret THEN {}
              ELSE IF r.error = "success"
              THEN {[success |-> TRUE, error |-> None, data |-> d] : d \in PagePayloads(app_id)}
              ELSE {[success |-> FALSE, error |-> r.error, data |-> EmptyDict]}
           : reply \in Replies, k \in 0..n}

\* What get_steam_game_info_api_sync(app_id, n) can return. A 200 answer
\* without a 'data' object for the ID yields success with data {}.
ApiResults(app_id, n) ==
    UNION {LET r == ApiAttempt(reply, k, n)
           IN IF ~r.ret THEN {}
              ELSE IF r.error = "success"
              THEN IF reply.body = "valid"
                   THEN {[success |-> TRUE, error |-> None, data |-> d] : d \in ApiPayloads}
                   ELSE {[success |-> TRUE, error |-> None, data |-> EmptyDict]}
              ELSE {[success |-> FALSE, error |-> r.error, data |-> EmptyDict]}
           : reply \in ApiReplies, k \in 0..n}

NoResult == [success |-> FALSE, error |-> None, data |-> EmptyDict]

\* result.get('success') and result.get('data')
HasData(result) == result.success /\ result.data # EmptyDict

\* raw_review_count / review_count of the page data
ReviewCountOf(data) == parse_review_count_to_int(data.review_info.total_review_count)

\* Variant: no floor.
FloorMetAlways(floor, review_count) == TRUE

\* minimum_reviews is None or review_count >= minimum_reviews
FloorMet(floor, review_count) == floor = NoInt \/ review_count >= floor

\* api_data.get('steam_appid') != app_id, negated
IdMatches(api_data, app_id) == api_data.steam_appid = app_id

\* api_data.get('type') == 'game'
IsGame(api_data) == api_data.type = "game"

\* global_failed_games[app_id] = {'type': ..., 'error': ...}
Put(failed_games, app_id, type, error) ==
    (app_id :> [type |-> type, error |-> error]) @@ failed_games

\* for failed_game in failed_batch: global_failed_games[...] = {...}
RECURSIVE PutAll(_, _, _, _)
PutAll(failed_games, failed_batch, type, error) ==
    IF failed_batch = <<>> THEN failed_games
    ELSE PutAll(Put(failed_games, Head(failed_batch), type, error), Tail(failed_batch), type, error)

\* The loop goes on with the next ID, or ends: final report, then finally.
NextIteration ==
    IF i < Len(app_ids)
    THEN /\ i' = i + 1
         /\ pc' = "page"
    ELSE /\ pc' = "finally"
         /\ UNCHANGED i

\* Variant: the API fetch follows whatever the page fetch returned.
AfterPageUngated(crawling, floor) == "api"

\* Where the if/else over crawling_result leads: on to the API fetch ("api"),
\* or the 'error' the ID is entered with in the failure map.
AfterPage(crawling, floor) ==
    IF HasData(crawling)
    THEN IF FloorMet(floor, ReviewCountOf(crawling.data))
         THEN "api"
         ELSE "review_count_too_low"
    ELSE IF crawling.error = "invalid_game_page"
         THEN "invalid_game_page"
         ELSE "unknown_crawling_error"

\* Variant: API data is accepted without the identity and type checks.
AfterApiUnchecked(api, app_id) ==
    IF HasData(api) THEN "accept"
    ELSE IF api.error = "no_data" THEN "no_data_from_api"
    ELSE "unknown_api_error"

\* Where the if/elif/else over api_result leads: the records are appended to
\* the buffers ("accept"), or the 'error' the ID is entered with.
AfterApi(api, app_id) ==
    IF HasData(api)
    THEN IF ~IdMatches(api.data, app_id) THEN "id_mismatch"
         ELSE IF IsGame(api.data) THEN "accept"
         ELSE "invalid_game_type"
    ELSE IF api.error = "no_data" THEN "no_data_from_api"
    ELSE "unknown_api_error"

\* Start of an iteration: the page fetch and what follows from its result.
ProcessPage ==
    /\ pc = "page"
    /\ \E crawling \in PageResults(app_ids[i], max_retries) :
          /\ crawling_result' = crawling
          /\ calls' = Append(calls, [client |-> "page", app_id |-> app_ids[i],
                                     result |-> crawling])
          /\ LET verdict == AfterPage(crawling, minimum_reviews)
             IN IF verdict = "api"
                THEN /\ pc' = "api"
                     /\ UNCHANGED global_failed_games
                ELSE /\ global_failed_games' =
                            Put(global_failed_games, app_ids[i], "crawling_failed", verdict)
                     /\ pc' = "flush"
    /\ processed_count' = processed_count + 1
    /\ UNCHANGED <<app_ids, batch_size, minimum_reviews, i, api_result, api_batch,
                   crawling_batch, api_success_count, crawling_success_count, ledger,
                   accepted, handed>>
    /\ UNCHANGED <<fetchVars, syncVars, tagVars>>

\* The API fetch, the identity and type checks, the appends to the buffers.
\* After id_mismatch and invalid_game_type the loop body ends with `continue`.
ProcessApi ==
    /\ pc = "api"
    /\ \E api \in ApiResults(app_ids[i], max_retries) :
          /\ api_result' = api
          /\ calls' = Append(calls, [client |-> "api", app_id |-> app_ids[i],
                                     result |-> api])
          /\ LET verdict == AfterApi(api, app_ids[i])
             IN IF verdict = "accept"
                THEN /\ api_batch' = Append(api_batch, api.data)
                     /\ api_success_count' = api_success_count + 1
                     /\ crawling_batch' = Append(crawling_batch, crawling_result.data)
                     /\ crawling_success_count' = crawling_success_count + 1
                     /\ accepted' = Append(accepted, app_ids[i])
                     /\ pc' = "flush"
                     /\ UNCHANGED <<i, global_failed_games>>
                ELSE /\ global_failed_games' =
                            Put(global_failed_games, app_ids[i], "api_failed", verdict)
                     /\ IF verdict \in {"id_mismatch", "invalid_game_type"}
                        THEN NextIteration
                        ELSE /\ pc' = "flush"
                             /\ UNCHANGED i
                     /\ UNCHANGED <<api_batch, crawling_batch, api_success_count,
                                    crawling_success_count, accepted>>
    /\ UNCHANGED <<app_ids, batch_size, minimum_reviews, crawling_result,
                   processed_count, ledger, handed>>
    /\ UNCHANGED <<fetchVars, syncVars, tagVars>>

\* Variant: the flush waits until the buffer holds more than batch_size records.
FlushDueLate == Len(api_batch) > batch_size \/ i = Len(app_ids)

\* len(api_batch) >= batch_size or i == len(app_ids) - 1
FlushDue == Len(api_batch) >= batch_size \/ i = Len(app_ids)

\* The flush condition is false: on to the sleep.
SkipFlush ==
    /\ pc = "flush"
    /\ ~FlushDue
    /\ pc' = "sleep"
    /\ UNCHANGED <<app_ids, batch_size, minimum_reviews, i, crawling_result, api_result,
                   api_batch, crawling_batch, global_failed_games, processed_count,
                   api_success_count, crawling_success_count, ledger, calls, accepted,
                   handed>>
    /\ UNCHANGED <<fetchVars, syncVars, tagVars>>

\* if api_batch: insert_steam_api_games_batch(api_batch) and the entries for
\* what it returns as failed. An exception of the call leaves the loop.
FlushApi ==
    /\ pc = "flush"
    /\ FlushDue
    /\ IF api_batch = <<>>
       THEN /\ pc' = "flush_crawling"
            /\ UNCHANGED <<syncVars, global_failed_games, handed>>
       ELSE \E fault \in Faults(store, api_batch, "steam_appid") :
                \E r \in {insert_steam_api_games_batch(store, api_batch, fault)} :
                    /\ RecordCall("api", api_batch, fault, r)
                    /\ handed' = [handed EXCEPT !.api = @ \cup {d.steam_appid : d \in SeqRange(api_batch)}]
                    /\ IF r.raised
                       THEN /\ pc' = "except"
                            /\ UNCHANGED global_failed_games
                       ELSE /\ global_failed_games' =
                                   PutAll(global_failed_games, r.failed,
                                          "api_db_failed", "db_insert_failed_api")
                            /\ pc' = "flush_crawling"
    /\ UNCHANGED <<app_ids, batch_size, minimum_reviews, i, crawling_result, api_result,
                   api_batch, crawling_batch, processed_count, api_success_count,
                   crawling_success_count, ledger, calls, accepted>>
    /\ UNCHANGED <<fetchVars, tagVars>>

\* if crawling_batch: insert_steam_crawling_games_batch(crawling_batch) and the
\* entries for what it returns as failed; then both buffers are cleared.
FlushCrawling ==
    /\ pc = "flush_crawling"
    /\ IF crawling_batch = <<>>
       THEN /\ pc' = "sleep"
            /\ api_batch' = <<>>
            /\ crawling_batch' = <<>>
            /\ UNCHANGED <<syncVars, global_failed_games, handed>>
       ELSE \E fault \in Faults(store, crawling_batch, "app_id") :
                \E r \in {insert_steam_crawling_games_batch(store, crawling_batch, fault)} :
                    /\ RecordCall("crawl", crawling_batch, fault, r)
                    /\ handed' = [handed EXCEPT !.crawl = @ \cup {d.app_id : d \in SeqRange(crawling_batch)}]
                    /\ IF r.raised
                       THEN /\ pc' = "except"
                            /\ UNCHANGED <<global_failed_games, api_batch, crawling_batch>>
                       ELSE /\ global_failed_games' =
                                   PutAll(global_failed_games, r.failed,
                                          "crawling_db_failed", "db_insert_failed_crawling")
                            /\ api_batch' = <<>>
                            /\ crawling_batch' = <<>>
                            /\ pc' = "sleep"
    /\ UNCHANGED <<app_ids, batch_size, minimum_reviews, i, crawling_result, api_result,
                   processed_count, api_success_count, crawling_success_count, ledger,
                   calls, accepted>>
    /\ UNCHANGED <<fetchVars, tagVars>>

\* time.sleep(delay), the last statement of the loop body.
Sleep ==
    /\ pc = "sleep"
    /\ NextIteration
    /\ UNCHANGED <<app_ids, batch_size, minimum_reviews, crawling_result, api_result,
                   api_batch, crawling_batch, global_failed_games, processed_count,
                   api_success_count, crawling_success_count, ledger, calls, accepted,
                   handed>>
    /\ UNCHANGED <<fetchVars, syncVars, tagVars>>

\* save_failed_games_to_file: nothing is written for an empty map.
save_failed_games_to_file(failed_games) ==
    IF failed_games = <<>> THEN [written |-> FALSE, entries |-> <<>>]
    ELSE [written |-> TRUE, entries |-> failed_games]

\* The failure files after a call of save_failed_games_to_file that left
\* `saved`: writes counts the calls of the run that wrote a file.
Filed(led, saved) ==
    [written |-> saved.written, entries |-> saved.entries,
     writes |-> led.writes + (IF saved.written THEN 1 ELSE 0)]

\* The finally clause, after the loop ("finally") or on the way out of the
\* re-raised exception ("except"): the run ends DONE or with the exception.
Finally ==
    /\ pc \in {"finally", "except"}
    /\ ledger' = Filed(ledger, save_failed_games_to_file(global_failed_games))
    /\ pc' = IF pc = "finally" THEN "done" ELSE "raised"
    /\ UNCHANGED <<app_ids, batch_size, minimum_reviews, i, crawling_result, api_result,
                   api_batch, crawling_batch, global_failed_games, processed_count,
                   api_success_count, crawling_success_count, calls, accepted, handed>>
    /\ UNCHANGED <<fetchVars, syncVars, tagVars>>

(***************************************************************************)
(* Specifications                                                          *)
(***************************************************************************)
\* A store in which ID 1 has a row of every table: what one API sync and one
\* page sync of ID 1 leave behind.
SeedStore ==
    insert_steam_crawling_games_batch(
        insert_steam_api_games_batch(EmptyStore, <<SteamData(1, "CS", "full")>>, "none").store,
        <<CrawlData(1, "CS", "hit", 1)>>, "none").store

SyncIdle ==
    /\ store \in {EmptyStore, SeedStore}
    /\ last_call = NoCall
    /\ repeated = FALSE
    /\ ncalls = 0

FetchIdle ==
    /\ client = "api"
    /\ attempt = 0
    /\ replies = <<>>
    /\ sleeps = <<>>
    /\ fetch_result = "running"

\* The ID streams: get_all_steam_games yields a set, so no ID comes twice.
Streams ==
    {s \in UNION {[1..n -> AppIds] : n \in 1..MaxId} :
        \A j, k \in 1..Len(s) : j # k => s[j] # s[k]}

RunStart ==
    /\ i = 1
    /\ crawling_result = NoResult
    /\ api_result = NoResult
    /\ api_batch = <<>>
    /\ crawling_batch = <<>>
    /\ global_failed_games = <<>>
    /\ processed_count = 0
    /\ api_success_count = 0
    /\ crawling_success_count = 0
    /\ ledger = [written |-> FALSE, entries |-> <<>>, writes |-> 0]
    /\ calls = <<>>
    /\ accepted = <<>>
    /\ handed = [api |-> {}, crawl |-> {}]

\* crawl_all_games is not running.
TagIdle ==
    /\ all_game_ids = <<>>
    /\ tag_batch_size = 1
    /\ progress = [completed_ids |-> {}, failed_ids |-> {}]
    /\ loaded = [completed_ids |-> {}, failed_ids |-> {}]
    /\ completed_ids = {}
    /\ failed_ids = {}
    /\ remaining_ids = <<>>
    /\ tag_i = 0
    /\ all_results = {}
    /\ fetched = <<>>
    /\ tag_pc = "idle"

RunIdle ==
    /\ app_ids = <<>>
    /\ batch_size = 1
    /\ minimum_reviews = NoInt
    /\ pc = "idle"
    /\ RunStart

vars == <<fetchVars, syncVars, runVars, tagVars>>

FetchInit ==
    /\ client \in {"api", "page"}
    /\ max_retries \in 0..MaxRetries
    /\ attempt = 0
    /\ replies = <<>>
    /\ sleeps = <<>>
    /\ fetch_result = "running"
    /\ store = EmptyStore
    /\ last_call = NoCall
    /\ repeated = FALSE
    /\ ncalls = 0
    /\ RunIdle
    /\ TagIdle

FetchNext == ApiRequest \/ PageRequest

SpecFetch == FetchInit /\ [][FetchNext]_vars

SyncInit ==
    /\ FetchIdle
    /\ max_retries = 0
    /\ SyncIdle
    /\ RunIdle
    /\ TagIdle

SyncNext == SyncApi \/ SyncCrawl

SpecSync == SyncInit /\ [][SyncNext]_vars

Init ==
    /\ FetchIdle
    /\ max_retries \in 0..MaxRunRetries
    /\ SyncIdle
    /\ app_ids \in Streams
    /\ batch_size \in 1..MaxBatch
    /\ minimum_reviews \in {NoInt} \cup ReviewFloors
    /\ pc = "page"
    /\ RunStart
    /\ TagIdle

Next ==
    \/ ProcessPage
    \/ ProcessApi
    \/ SkipFlush
    \/ FlushApi
    \/ FlushCrawling
    \/ Sleep
    \/ Finally

Spec == Init /\ [][Next]_vars

(***************************************************************************)
(* Termination signal: signal_handler (run_save_all_games.py)              *)
(***************************************************************************)
\* Variant: the handler exits without saving the failure map.
signal_handler_exit_only(failed_games) == [written |-> FALSE, entries |-> <<>>]

\* signal_handler up to sys.exit(0): the ledger it leaves behind.
signal_handler(failed_games) == save_failed_games_to_file(failed_games)

\* Variant: __exit__ commits what is pending also when the block raised.
RollbackSessionCommitting(sess) == sess.db

\* GameInserter.__exit__ with an exception in the block (here the SystemExit
\* of sys.exit(0), which no `except Exception` of the inserter catches):
\* session.rollback(), session.close(). The store it leaves.
RollbackSession(sess) == sess.base

\* The session after step 4 of a hybrid batch that meets no fault.
ApiSessionAfterNew(sess, new_games_data) ==
    IF new_games_data # <<>>
    THEN bulk_insert_new_api_games(sess, new_games_data, "none").sess
    ELSE sess

CrawlingSessionAfterNew(sess, new_games_data) ==
    IF new_games_data # <<>>
    THEN bulk_insert_new_crawling_games(sess, new_games_data, "none").sess
    ELSE sess

\* The sessions a signal can find inside insert_steam_api_games_batch: before
\* the first statement, between the bulk inserts of step 4, and in step 5
\* after any number of the existing records.
ApiSessionsOf(sess, new_games_data, existing_games_data) ==
    {sess}
      \cup (IF new_games_data # <<>>
            THEN {BulkInsertGames(sess, ApiGameObjects(new_games_data), FALSE).sess}
            ELSE {})
      \cup {update_existing_api_games(ApiSessionAfterNew(sess, new_games_data),
                                      SubSeq(existing_games_data, 1, k)).sess :
               k \in 0..Len(existing_games_data)}

ApiSessionsSplit(sess, games_data) ==
    ApiSessionsOf(sess, NewGames(sess, games_data, "steam_appid"),
                  ExistingGames(sess, games_data, "steam_appid"))

ApiSessionsInFlight(committed, batch) ==
    ApiSessionsSplit(BeginSession(committed), Deduplicate(batch, "steam_appid"))

\* The same for insert_steam_crawling_games_batch.
CrawlingSessionsOf(sess, new_games_data, existing_games_data) ==
    {sess}
      \cup (IF new_games_data # <<>>
            THEN {BulkInsertGames(sess, CrawlGameObjects(new_games_data), FALSE).sess,
                  TagsAfter(BulkInsertGames(sess, CrawlGameObjects(new_games_data), FALSE),
                            CrawlTagObjects(new_games_data), FALSE).sess}
            ELSE {})
      \cup {update_existing_crawling_games(CrawlingSessionAfterNew(sess, new_games_data),
                                           SubSeq(existing_games_data, 1, k)).sess :
               k \in 0..Len(existing_games_data)}

CrawlingSessionsSplit(sess, games_data) ==
    CrawlingSessionsOf(sess, NewGames(sess, games_data, "app_id"),
                       ExistingGames(sess, games_data, "app_id"))

CrawlingSessionsInFlight(committed, batch) ==
    CrawlingSessionsSplit(BeginSession(committed), Deduplicate(batch, "app_id"))

\* What a signal leaves of a transaction: inside the `with` block the
\* SystemExit reaches __exit__, which rolls back; inside session.commit() the
\* database has either executed the COMMIT (full is the outcome of the
\* uninterrupted call) or not, and then drops the transaction with the
\* connection. pending: the writes the transaction held; committed: whether
\* the COMMIT was executed.
SignalPoints(sessions, full) ==
    {[pending |-> sess.writes, committed |-> FALSE, store |-> RollbackSession(sess)] :
        sess \in sessions}
      \cup {[pending |-> full.writes, committed |-> TRUE, store |-> full.store]}

\* The signal cuts a sync call short: the handler saves the failure map and
\* raises SystemExit at the interrupted statement.
InterruptCall(fn, batch, p) ==
    /\ store' = p.store
    /\ last_call' = [fn |-> fn, batch |-> batch, fault |-> "signal", before |-> store,
                     raised |-> TRUE, writes |-> IF p.committed THEN p.pending ELSE 0,
                     success_count |-> 0, failed |-> <<>>,
                     pending |-> p.pending, committed |-> p.committed]
    /\ repeated' = FALSE
    /\ ncalls' = ncalls + 1
    /\ ledger' = Filed(ledger, signal_handler(global_failed_games))
    /\ pc' = "signal_exit"

\* SIGINT / SIGTERM while main_with_batch is outside a sync call.
Signal ==
    /\ pc \in {"page", "api", "flush", "flush_crawling", "sleep", "finally", "except"}
    /\ ledger' = Filed(ledger, signal_handler(global_failed_games))
    /\ pc' = "signal_exit"
    /\ UNCHANGED <<app_ids, batch_size, minimum_reviews, i, crawling_result, api_result,
                   api_batch, crawling_batch, global_failed_games, processed_count,
                   api_success_count, crawling_success_count, calls, accepted, handed>>
    /\ UNCHANGED <<fetchVars, syncVars, tagVars>>

\* SIGINT / SIGTERM inside insert_steam_api_games_batch(api_batch).
SignalInFlushApi ==
    /\ pc = "flush"
    /\ FlushDue
    /\ api_batch # <<>>
    /\ \E p \in SignalPoints(ApiSessionsInFlight(store, api_batch),
                             insert_steam_api_games_batch(store, api_batch, "none")) :
          InterruptCall("api", api_batch, p)
    /\ handed' = [handed EXCEPT !.api = @ \cup {d.steam_appid : d \in SeqRange(api_batch)}]
    /\ UNCHANGED <<app_ids, batch_size, minimum_reviews, i, crawling_result, api_result,
                   api_batch, crawling_batch, global_failed_games, processed_count,
                   api_success_count, crawling_success_count, calls, accepted>>
    /\ UNCHANGED <<fetchVars, tagVars>>

\* SIGINT / SIGTERM inside insert_steam_crawling_games_batch(crawling_batch).
SignalInFlushCrawling ==
    /\ pc = "flush_crawling"
    /\ crawling_batch # <<>>
    /\ \E p \in SignalPoints(CrawlingSessionsInFlight(store, crawling_batch),
                             insert_steam_crawling_games_batch(store, crawling_batch, "none")) :
          InterruptCall("crawl", crawling_batch, p)
    /\ handed' = [handed EXCEPT !.crawl = @ \cup {d.app_id : d \in SeqRange(crawling_batch)}]
    /\ UNCHANGED <<app_ids, batch_size, minimum_reviews, i, crawling_result, api_result,
                   api_batch, crawling_batch, global_failed_games, processed_count,
                   api_success_count, crawling_success_count, calls, accepted>>
    /\ UNCHANGED <<fetchVars, tagVars>>

\* The SystemExit leaves main_with_batch through its finally clause, which
\* saves the failure map once more; the process exits.
ExitFinally ==
    /\ pc = "signal_exit"
    /\ ledger' = Filed(ledger, save_failed_games_to_file(global_failed_games))
    /\ pc' = "exited"
    /\ UNCHANGED <<app_ids, batch_size, minimum_reviews, i, crawling_result, api_result,
                   api_batch, crawling_batch, global_failed_games, processed_count,
                   api_success_count, crawling_success_count, calls, accepted, handed>>
    /\ UNCHANGED <<fetchVars, syncVars, tagVars>>

NextSignal ==
    \/ Next
    \/ Signal
    \/ SignalInFlushApi
    \/ SignalInFlushCrawling
    \/ ExitFinally

\* A run of main_with_batch that a termination signal can end at any point.
SpecSignal == Init /\ [][NextSignal]_vars

(***************************************************************************)
(* A concurrent writer during an API sync call                             *)
(***************************************************************************)
\* The store after another writer has committed a games row for app_id.
WithRivalRow(committed, app_id, row) ==
    [committed EXCEPT !.games = (app_id :> row) @@ committed.games]

\* The rows the other writer inserts: those of a record without optional
\* fields.
RivalRows(app_id) == {ApiRow(SteamData(app_id, name, "blank")) : name \in NamesOf(app_id)}

\* Steps 2 to 5 of the API hybrid batch when the existence check of step 2
\* has read `seen` and the statements of steps 4 and 5 run on the database as
\* the other writer has left it.
ApiHybridSplitRacing(seen, sess, games_data) ==
    ApiHybridSteps(sess, NewGames(seen, games_data, "steam_appid"),
                   ExistingGames(seen, games_data, "steam_appid"), "none")

\* insert_steam_api_games_batch with the other writer's commit between the
\* existence check and the bulk insert.
insert_steam_api_games_batch_racing(committed, rival_store, games_data) ==
    ExitInserter(
        ApiHybridSplitRacing(BeginSession(committed), BeginSession(rival_store),
                             Deduplicate(games_data, "steam_appid")),
        "none")

\* The IDs of a batch that the existence check classifies NEW.
NewIds(committed, batch) ==
    {d.steam_appid : d \in SeqRange(batch)} \ DOMAIN committed.games

\* An API sync call during which another writer inserts the row of an ID the
\* call has classified NEW.
SyncApiCollision ==
    /\ ncalls < MaxCalls
    /\ \E batch \in BatchesOf(ApiRecords) :
          \E rival \in NewIds(store, batch) :
              \E row \in RivalRows(rival) :
                  \E r \in {insert_steam_api_games_batch_racing(
                                store, WithRivalRow(store, rival, row), batch)} :
                      /\ store' = r.store
                      /\ last_call' = [fn |-> "api", batch |-> batch, fault |-> "collision",
                                       before |-> store, raised |-> r.raised,
                                       writes |-> r.writes,
                                       success_count |-> r.success_count,
                                       failed |-> r.failed, rival |-> rival]
    /\ repeated' = FALSE
    /\ ncalls' = ncalls + 1
    /\ UNCHANGED <<fetchVars, runVars, tagVars>>

RaceNext == SyncApi \/ SyncApiCollision

\* API sync calls, some of them racing with another writer.
SpecRace == SyncInit /\ [][RaceNext]_vars

(***************************************************************************)
(* Sync calls on single records, over wider record domains                 *)
(***************************************************************************)
\* The titles a record can carry: those of NamesOf, and none ('name' /
\* 'title' empty or absent, which .get(key, '') reads as '').
WideNames(id) == NamesOf(id) \cup {""}

WideApiRecords ==
    UNION {{SteamData(id, name, p) : name \in WideNames(id), p \in ApiProfiles} : id \in AppIds}

\* Two crawl instants, so that a record can repeat the stored values at a
\* later time.
WideCrawlTimes == {1, 2}

WideCrawlRecords ==
    UNION {{CrawlData(id, title, p, t) : title \in WideNames(id), p \in CrawlProfiles,
                                        t \in WideCrawlTimes} : id \in AppIds}

SyncApiWide ==
    /\ ncalls < MaxCalls
    /\ \E d \in WideApiRecords :
          \E fault \in Faults(store, <<d>>, "steam_appid") :
              \E r \in {insert_steam_api_games_batch(store, <<d>>, fault)} :
                  RecordCall("api", <<d>>, fault, r)
    /\ UNCHANGED <<fetchVars, runVars, tagVars>>

SyncCrawlWide ==
    /\ ncalls < MaxCalls
    /\ \E d \in WideCrawlRecords :
          \E fault \in Faults(store, <<d>>, "app_id") :
              \E r \in {insert_steam_crawling_games_batch(store, <<d>>, fault)} :
                  RecordCall("crawl", <<d>>, fault, r)
    /\ UNCHANGED <<fetchVars, runVars, tagVars>>

WideNext == SyncApiWide \/ SyncCrawlWide

SpecSyncWide == SyncInit /\ [][WideNext]_vars

(***************************************************************************)
(* Single-game orchestrator: main_without_batch (run_save_all_games.py)    *)
(***************************************************************************)
\* What a `with GameInserter()` block around one insert_steam_*_game call
\* leaves: ok is the returned bool, raised the exception of the commit.
SingleOutcome(r, c) ==
    [store |-> c.store, raised |-> c.raised, writes |-> c.writes, ok |-> r.ok]

\* insert_steam_crawling_game_single
insert_steam_crawling_game_single(committed, crawling_data, commit_fails) ==
    SingleOutcome(insert_steam_crawling_game(BeginSession(committed), crawling_data),
                  CommitSession(
                      insert_steam_crawling_game(BeginSession(committed), crawling_data).sess,
                      commit_fails))

\* insert_steam_api_game_single
insert_steam_api_game_single(committed, steam_data, commit_fails) ==
    SingleOutcome(insert_steam_api_game(BeginSession(committed), steam_data),
                  CommitSession(
                      insert_steam_api_game(BeginSession(committed), steam_data).sess,
                      commit_fails))

\* Where the commit of one of the two sessions of a save can fail.
SingleFaults == {"none", "commit_crawling", "commit_api"}

\* The try block of the save, from the second statement on: c is what
\* insert_steam_crawling_game_single left. The counters are incremented after
\* each call that did not raise; the returned bools are not looked at.
SaveApiAfter(c, a) ==
    [store |-> IF c.raised THEN c.store ELSE a.store,
     raised |-> c.raised \/ a.raised,
     writes |-> IF c.raised THEN 0 ELSE c.writes + a.writes,
     crawling_ok |-> c.ok,
     api_ok |-> ~c.raised /\ a.ok,
     crawling_counted |-> IF c.raised THEN 0 ELSE 1,
     api_counted |-> IF c.raised \/ a.raised THEN 0 ELSE 1]

\* insert_steam_crawling_game_single(...); insert_steam_api_game_single(...)
SaveSingleFrom(c, api_data, fault) ==
    SaveApiAfter(c, insert_steam_api_game_single(c.store, api_data, fault = "commit_api"))

SaveSingle(committed, crawling_data, api_data, fault) ==
    SaveSingleFrom(
        insert_steam_crawling_game_single(committed, crawling_data, fault = "commit_crawling"),
        api_data, fault)

\* The save of an accepted ID and its except clause.
SingleSave(app_id, api_data, fault, r) ==
    /\ store' = r.store
    /\ last_call' = [fn |-> "single", batch |-> <<crawling_result.data, api_data>>,
                     fault |-> fault, before |-> store, raised |-> r.raised,
                     writes |-> r.writes, success_count |-> r.crawling_counted + r.api_counted,
                     failed |-> <<>>, crawling_ok |-> r.crawling_ok, api_ok |-> r.api_ok,
                     crawling_before |-> crawling_success_count,
                     api_before |-> api_success_count]
    /\ repeated' = FALSE
    /\ ncalls' = ncalls + 1
    /\ crawling_success_count' = crawling_success_count + r.crawling_counted
    /\ api_success_count' = api_success_count + r.api_counted
    /\ global_failed_games' =
          IF r.raised THEN Put(global_failed_games, app_id, "db_failed", "db_insert_failed")
          ELSE global_failed_games
    /\ accepted' = Append(accepted, app_id)
    /\ handed' = [api |-> handed.api \cup {app_id}, crawl |-> handed.crawl \cup {app_id}]
    /\ pc' = "sleep"
    /\ UNCHANGED i

\* The API fetch, the identity and type checks and the immediate save.
SingleApi ==
    /\ pc = "api"
    /\ \E api \in ApiResults(app_ids[i], max_retries) :
          /\ api_result' = api
          /\ calls' = Append(calls, [client |-> "api", app_id |-> app_ids[i],
                                     result |-> api])
          /\ LET verdict == AfterApi(api, app_ids[i])
             IN IF verdict = "accept"
                THEN \E fault \in SingleFaults :
                        \E r \in {SaveSingle(store, crawling_result.data, api.data, fault)} :
                            SingleSave(app_ids[i], api.data, fault, r)
                ELSE /\ global_failed_games' =
                            Put(global_failed_games, app_ids[i], "api_failed", verdict)
                     /\ IF verdict \in {"id_mismatch", "invalid_game_type"}
                        THEN NextIteration
                        ELSE /\ pc' = "sleep"
                             /\ UNCHANGED i
                     /\ UNCHANGED <<syncVars, api_success_count, crawling_success_count,
                                    accepted, handed>>
    /\ UNCHANGED <<app_ids, batch_size, minimum_reviews, crawling_result, api_batch,
                   crawling_batch, processed_count, ledger>>
    /\ UNCHANGED <<fetchVars, tagVars>>

\* After a rejected page fetch: the progress display (there is no flush).
SingleProgress ==
    /\ pc = "flush"
    /\ pc' = "sleep"
    /\ UNCHANGED <<app_ids, batch_size, minimum_reviews, i, crawling_result, api_result,
                   api_batch, crawling_batch, global_failed_games, processed_count,
                   api_success_count, crawling_success_count, ledger, calls, accepted,
                   handed>>
    /\ UNCHANGED <<fetchVars, syncVars, tagVars>>

SingleNext ==
    \/ ProcessPage
    \/ SingleApi
    \/ SingleProgress
    \/ Sleep
    \/ Finally

SpecSingle == Init /\ [][SingleNext]_vars

(***************************************************************************)
(* Page-source sync calls on records with empty child data                 *)
(***************************************************************************)
\* Page-source records as insert_steam_crawling_games_batch accepts them:
\* review_info and localized_price filled by the crawler, or empty / absent.
SparseCrawlRecords ==
    UNION {{[d EXCEPT !.review_info = r, !.localized_price = p] :
               r \in {d.review_info, EmptyDict}, p \in {d.localized_price, EmptyDict}} :
           d \in CrawlRecords}

SyncCrawlSparse ==
    /\ ncalls < MaxCalls
    /\ \E d \in SparseCrawlRecords :
          \E fault \in Faults(store, <<d>>, "app_id") :
              \E r \in {insert_steam_crawling_games_batch(store, <<d>>, fault)} :
                  RecordCall("crawl", <<d>>, fault, r)
    /\ UNCHANGED <<fetchVars, runVars, tagVars>>

SpecSyncSparse == SyncInit /\ [][SyncCrawlSparse]_vars

(***************************************************************************)
(* Tag crawler: SteamTagCrawler.crawl_all_games (crawler.py)               *)
(***************************************************************************)
TagIds == 1..MaxTagId

\* The ID lists load_game_ids_from_csv returns: each ID of the file once.
TagStreams ==
    {s \in UNION {[1..n -> TagIds] : n \in 0..MaxTagId} :
        \A j, k \in 1..Len(s) : j # k => s[j] # s[k]}

NoProgress == [completed_ids |-> {}, failed_ids |-> {}]

\* load_progress: no file or an unreadable one gives the empty progress;
\* otherwise what an earlier run saved.
ProgressFiles ==
    {p \in [completed_ids : SUBSET TagIds, failed_ids : SUBSET TagIds] :
        p.completed_ids \cap p.failed_ids = {}}

\* [gid for gid in all_game_ids if gid not in completed_ids and gid not in failed_ids]
RemainingIds(game_ids, completed, failed) ==
    SelectSeq(game_ids, LAMBDA gid : gid \notin completed /\ gid \notin failed)

\* batch_ids = remaining_ids[i:i + batch_size]
BatchIds ==
    SubSeq(remaining_ids, tag_i + 1,
           IF tag_i + tag_batch_size < Len(remaining_ids)
           THEN tag_i + tag_batch_size ELSE Len(remaining_ids))

\* for i in range(0, len(remaining_ids), batch_size): the next batch, or the
\* end of the loop.
NextBatch ==
    /\ tag_i' = tag_i + tag_batch_size
    /\ tag_pc' = IF tag_i + tag_batch_size < Len(remaining_ids) THEN "batch" ELSE "done"

\* crawl_all_games up to the loop: the IDs and the progress are loaded, the
\* IDs already processed are filtered out.
TagStart ==
    /\ tag_pc = "start"
    /\ IF all_game_ids = <<>>
       THEN /\ tag_pc' = "done"
            /\ UNCHANGED <<loaded, completed_ids, failed_ids, remaining_ids>>
       ELSE /\ loaded' = progress
            /\ completed_ids' = progress.completed_ids
            /\ failed_ids' = progress.failed_ids
            /\ remaining_ids' = RemainingIds(all_game_ids, progress.completed_ids,
                                             progress.failed_ids)
            /\ tag_pc' = IF remaining_ids' = <<>> THEN "done" ELSE "batch"
    /\ UNCHANGED <<all_game_ids, tag_batch_size, progress, tag_i, all_results, fetched>>
    /\ UNCHANGED <<fetchVars, syncVars, runVars>>

\* The try block up to the update of the two sets: crawl_batch returns the
\* results of the IDs whose page was fetched (successful_ids), or raises and
\* the except clause puts the whole batch into failed_ids.
CrawlBatch ==
    /\ tag_pc = "batch"
    /\ fetched' = fetched \o BatchIds
    /\ \/ \E successful_ids \in SUBSET SeqRange(BatchIds) :
             /\ all_results' = all_results \cup successful_ids
             /\ completed_ids' = completed_ids \cup successful_ids
             /\ failed_ids' = failed_ids \cup (SeqRange(BatchIds) \ successful_ids)
             /\ tag_pc' = "save"
             /\ UNCHANGED tag_i
       \/ /\ failed_ids' = failed_ids \cup SeqRange(BatchIds)
          /\ NextBatch
          /\ UNCHANGED <<all_results, completed_ids>>
    /\ UNCHANGED <<all_game_ids, tag_batch_size, progress, loaded, remaining_ids>>
    /\ UNCHANGED <<fetchVars, syncVars, runVars>>

\* Where the rest of the try block can raise: in save_progress, or in
\* save_results, which is called when all_results is not empty.
SaveFaults == {"none", "save_progress"}
                 \cup (IF all_results # {} THEN {"save_results"} ELSE {})

\* The progress file after save_progress: written, or, when it raised, as it
\* was (open failed) or unreadable (the dump failed), which load_progress
\* reads as no progress.
SavedProgress(fault) ==
    IF fault = "save_progress" THEN {progress, NoProgress}
    ELSE {[completed_ids |-> completed_ids, failed_ids |-> failed_ids]}

\* The rest of the try block: save_progress, save_results, the sleep; an
\* exception of either leads to the except clause: failed_ids.update(batch_ids).
SaveBatch ==
    /\ tag_pc = "save"
    /\ \E fault \in SaveFaults :
          /\ progress' \in SavedProgress(fault)
          /\ failed_ids' = IF fault = "none" THEN failed_ids
                           ELSE failed_ids \cup SeqRange(BatchIds)
    /\ NextBatch
    /\ UNCHANGED <<all_game_ids, tag_batch_size, loaded, completed_ids, remaining_ids,
                   all_results, fetched>>
    /\ UNCHANGED <<fetchVars, syncVars, runVars>>

TagInit ==
    /\ FetchIdle
    /\ max_retries = 0
    /\ store = EmptyStore
    /\ last_call = NoCall
    /\ repeated = FALSE
    /\ ncalls = 0
    /\ RunIdle
    /\ all_game_ids \in TagStreams
    /\ tag_batch_size \in 1..MaxTagBatch
    /\ progress \in ProgressFiles
    /\ loaded = NoProgress
    /\ completed_ids = {}
    /\ failed_ids = {}
    /\ remaining_ids = <<>>
    /\ tag_i = 0
    /\ all_results = {}
    /\ fetched = <<>>
    /\ tag_pc = "start"

TagNext == TagStart \/ CrawlBatch \/ SaveBatch

\* One run of crawl_all_games.
SpecTags == TagInit /\ [][TagNext]_vars

(***************************************************************************)
(* Properties                                                              *)
(***************************************************************************)
\* The ID of a record handed to the sync function fn.
IdOf(fn, d) == IF fn = "api" THEN d.steam_appid ELSE d.app_id

\* C1 (Spec). Batch atomicity: when the persistence layer raised during a
\* sync call of the run, no row of that batch is committed (the store is what
\* it was before the call) and every ID of the batch is in the failure map as
\* a persistence failure.
C1_BatchAtomicity ==
    (last_call.fn # "none" /\ last_call.raised) =>
        /\ store = last_call.before
        /\ \A d \in SeqRange(last_call.batch) :
              /\ IdOf(last_call.fn, d) \in DOMAIN global_failed_games
              /\ global_failed_games[IdOf(last_call.fn, d)].type
                     \in {"api_db_failed", "crawling_db_failed"}

\* C2 (SpecSync). Idempotence: the second of two consecutive sync calls with
\* the identical batch writes nothing: no row is inserted, updated or deleted
\* and no timestamp changes, so the store is what it was before the call.
C2_Idempotence ==
    repeated => (last_call.writes = 0 /\ store = last_call.before)

\* A batch of two records was synced twice in a row into a store that has
\* tags, reviews and prices.
C2_Witness ==
    /\ repeated
    /\ Len(last_call.batch) = MaxBatch
    /\ last_call.fn = "crawl"
    /\ store.tags # {}
    /\ DOMAIN store.reviews # {}

\* C3 (SpecSync). Partial-record non-destructive update: after an API sync of
\* an EXISTING entity, a scalar field whose incoming value is empty or absent
\* in the record(s) of the batch keeps its stored value.
C3_NonDestructiveUpdate ==
    (last_call.fn = "api" /\ ~last_call.raised) =>
        \A id \in DOMAIN last_call.before.games :
            LET recs == {d \in SeqRange(last_call.batch) : d.steam_appid = id}
                old == last_call.before.games[id]
                new == store.games[id]
            IN recs # {} =>
                 /\ (\A d \in recs : d.short_description = "") => new.description = old.description
                 /\ (\A d \in recs : d.developers = <<>>) => new.developer = old.developer
                 /\ (\A d \in recs : d.publishers = <<>>) => new.publisher = old.publisher
                 /\ (\A d \in recs : d.header_image = "")
                        => new.header_image_url = old.header_image_url
                 /\ (\A d \in recs : d.pc_minimum = "")
                        => new.system_requirements_minimum = old.system_requirements_minimum
                 /\ (\A d \in recs : d.pc_recommended = "")
                        => new.system_requirements_recommended = old.system_requirements_recommended

\* C4 (SpecSync). Dedup keeps the last occurrence: after a sync call that did
\* not raise, the version stored for an ID of the batch is the one of the
\* last record of the batch with that ID (seen here by its title).
C4_DedupKeepsLast ==
    (last_call.fn # "none" /\ ~last_call.raised /\ last_call.fault = "none") =>
        \A j \in 1..Len(last_call.batch) :
            LET id == IdOf(last_call.fn, last_call.batch[j])
                later == {k \in (j + 1)..Len(last_call.batch) :
                             IdOf(last_call.fn, last_call.batch[k]) = id}
            IN (later = {} /\ id \in DOMAIN store.games) =>
                  store.games[id].title =
                      (IF last_call.fn = "api" THEN last_call.batch[j].name
                                               ELSE last_call.batch[j].title)

\* The statuses a client treats as throttling.
ThrottleStatusesOf(c) == IF c = "api" THEN ApiThrottleStatuses ELSE PageThrottleStatuses

AlwaysThrottled == \A j \in 1..Len(replies) : replies[j].status \in ThrottleStatusesOf(client)

\* C5 (SpecFetch). Backoff bound: against a source that answers every request
\* with a throttling status, the call sleeps 2*2^k before retry k (k from 0),
\* makes at most max_retries retries, and ends after exactly max_retries + 1
\* requests and max_retries sleeps with rate_limit_exceeded; no sleep follows
\* the last attempt.
C5_BackoffBound ==
    AlwaysThrottled =>
        /\ \A k \in 1..Len(sleeps) : sleeps[k] = 2 * 2^(k - 1)
        /\ Len(sleeps) <= max_retries
        /\ Len(replies) <= max_retries + 1
        /\ fetch_result = "running" => (Len(replies) = Len(sleeps) /\ Len(replies) <= max_retries)
        /\ fetch_result # "running" =>
              /\ fetch_result = "rate_limit_exceeded"
              /\ Len(replies) = max_retries + 1
              /\ Len(sleeps) = max_retries

\* Three retries after delays 2, 4, 8, then the terminal failure.
C5_Witness ==
    /\ max_retries = 3
    /\ Len(replies) = 4
    /\ AlwaysThrottled
    /\ sleeps = <<2, 4, 8>>
    /\ fetch_result = "rate_limit_exceeded"

\* C6 (Spec). Ledger completeness: when the run is DONE, every ID of the
\* stream that is not persisted in the store has an entry in the ledger.
C6_LedgerComplete ==
    pc = "done" =>
        \A id \in SeqRange(app_ids) :
            id \notin DOMAIN store.games => id \in DOMAIN ledger.entries

\* C7 (Spec). Flush on threshold or stream end: at DONE both buffers are empty
\* and every record that was appended to the buffers has been handed to the
\* synchronizer.
C7_FlushAtEnd ==
    pc = "done" =>
        /\ api_batch = <<>>
        /\ crawling_batch = <<>>
        /\ SeqRange(accepted) \subseteq (handed.api \cap handed.crawl)

\* C8 (Spec). Page source before structured source: every API call comes
\* right after a successful page call for the same ID, so an ID whose page
\* call failed has no API call; the success counts count the accepted IDs
\* only, each of which has a successful page call.
C8_PageBeforeApi ==
    /\ \A j \in 1..Len(calls) :
          calls[j].client = "api" =>
              /\ j > 1
              /\ calls[j - 1].client = "page"
              /\ calls[j - 1].app_id = calls[j].app_id
              /\ calls[j - 1].result.success
    /\ \A j \in 1..Len(calls) :
          (calls[j].client = "page" /\ ~calls[j].result.success) =>
              /\ calls[j].app_id \notin SeqRange(accepted)
              /\ \A k \in 1..Len(calls) :
                    ~(calls[k].client = "api" /\ calls[k].app_id = calls[j].app_id)
    /\ api_success_count = Len(accepted)
    /\ crawling_success_count = Len(accepted)

\* A finished run in which one ID's page call failed as invalid_game_page and
\* another ID went through both sources and was counted.
C8_Witness ==
    /\ pc = "done"
    /\ \E j \in 1..Len(calls) :
          calls[j].client = "page" /\ calls[j].result.error = "invalid_game_page"
    /\ \E j \in 1..Len(calls) : calls[j].client = "api"
    /\ api_success_count = 1

\* The number a count string of the page stands for.
CountShown(raw) ==
    CASE raw = NoCount -> 0
      [] raw = <<"5", "0">> -> 50
      [] raw = <<"5", "0", "0", ",", "0", "0", "0">> -> 500000

\* C9 (Spec). Engagement filter: an ID whose page review count (missing: 0;
\* separators removed) is below minimum_reviews gets no API call and is never
\* buffered; with minimum_reviews None no ID is rejected by the filter.
C9_EngagementFilter ==
    /\ \A j \in 1..Len(calls) :
          (/\ calls[j].client = "page"
           /\ calls[j].result.success
           /\ minimum_reviews # NoInt
           /\ CountShown(calls[j].result.data.review_info.total_review_count) < minimum_reviews)
          => /\ \A k \in 1..Len(calls) :
                   ~(calls[k].client = "api" /\ calls[k].app_id = calls[j].app_id)
             /\ calls[j].app_id \notin SeqRange(accepted)
             /\ \A k \in 1..Len(crawling_batch) : crawling_batch[k].app_id # calls[j].app_id
             /\ \A k \in 1..Len(api_batch) : api_batch[k].steam_appid # calls[j].app_id
    /\ minimum_reviews = NoInt =>
          \A id \in DOMAIN global_failed_games :
              global_failed_games[id].error # "review_count_too_low"

\* A finished run with floor 100 in which an ID with 50 reviews was rejected
\* and an ID with 500,000 reviews was fetched from the API.
C9_Witness ==
    /\ pc = "done"
    /\ minimum_reviews = 100
    /\ \E j \in 1..Len(calls) :
          /\ calls[j].client = "page"
          /\ calls[j].result.success
          /\ calls[j].result.data.review_info.total_review_count = <<"5", "0">>
          /\ calls[j].app_id \in DOMAIN global_failed_games
          /\ global_failed_games[calls[j].app_id].error = "review_count_too_low"
    /\ \E j \in 1..Len(calls) : calls[j].client = "api"

\* C10 (Spec). Type and identity filter: every buffered record, and every
\* record handed to the API sync, has type 'game' and echoes the requested
\* ID; an ID whose API data fails either check is in the failure map as
\* id_mismatch / invalid_game_type, is never buffered, and has one API call.
C10_TypeIdentityFilter ==
    /\ Len(api_batch) = Len(crawling_batch)
    /\ Len(api_batch) <= Len(accepted)
    /\ \A j \in 1..Len(api_batch) :
          /\ api_batch[j].type = "game"
          /\ api_batch[j].steam_appid = accepted[Len(accepted) - Len(api_batch) + j]
          /\ crawling_batch[j].app_id = api_batch[j].steam_appid
    /\ last_call.fn = "api" =>
          \A d \in SeqRange(last_call.batch) :
              d.type = "game" /\ d.steam_appid \in SeqRange(accepted)
    /\ \A j \in 1..Len(calls) :
          (/\ calls[j].client = "api"
           /\ calls[j].result.success
           /\ calls[j].result.data # EmptyDict
           /\ (\/ calls[j].result.data.steam_appid # calls[j].app_id
               \/ calls[j].result.data.type # "game"))
          => /\ calls[j].app_id \in DOMAIN global_failed_games
             /\ global_failed_games[calls[j].app_id].error =
                    (IF calls[j].result.data.steam_appid # calls[j].app_id
                     THEN "id_mismatch" ELSE "invalid_game_type")
             /\ calls[j].app_id \notin SeqRange(accepted)
             /\ \A k \in 1..Len(calls) :
                   (calls[k].client = "api" /\ calls[k].app_id = calls[j].app_id) => k = j

\* A finished run in which one ID was rejected for id_mismatch, or for its
\* type, and another ID was accepted and synced.
C10_Witness ==
    /\ pc = "done"
    /\ \E id \in DOMAIN global_failed_games :
          global_failed_games[id].error \in {"id_mismatch", "invalid_game_type"}
    /\ accepted # <<>>
    /\ last_call.fn = "crawl"

\* A reply of the page source that is valid but has no title element.
LacksTitle(reply) == reply.status = 200 /\ reply.body = "absent"

\* C11 (SpecFetch). not_found_or_invalid is terminal without retry: the page
\* client returns invalid_game_page on the very attempt whose page lacks the
\* title element, whatever max_retries and the attempt index are: that reply
\* is the last request of the call and no sleep follows it.
C11_InvalidPageTerminal ==
    client = "page" =>
        \A j \in 1..Len(replies) :
            LacksTitle(replies[j]) =>
                /\ j = Len(replies)
                /\ fetch_result = "invalid_game_page"
                /\ Len(sleeps) = j - 1

\* With three retries allowed, the third request (after two throttled ones)
\* got a page without title: the call ended there, after the sleeps 2 and 4.
C11_Witness ==
    /\ client = "page"
    /\ max_retries = 3
    /\ Len(replies) = 3
    /\ LacksTitle(replies[3])
    /\ sleeps = <<2, 4>>
    /\ fetch_result = "invalid_game_page"

\* C12 (Spec). Expected noise is not ledgered: an ID whose page fetch returned
\* invalid_game_page has no entry in the failure map, and none in the ledger.
C12_NoiseNotLedgered ==
    \A j \in 1..Len(calls) :
        (calls[j].client = "page" /\ calls[j].result.error = "invalid_game_page") =>
            /\ calls[j].app_id \notin DOMAIN global_failed_games
            /\ calls[j].app_id \notin DOMAIN ledger.entries

\* The 'error' values the filtering policy enters an ID with.
PolicySkips == {"review_count_too_low", "invalid_game_type"}

\* C13 (Spec). Policy skips are not ledgered: no entry of the failure map, and
\* none of the ledger, is that of an ID rejected by the review floor or by the
\* type check.
C13_PolicySkipsNotLedgered ==
    /\ \A id \in DOMAIN global_failed_games : global_failed_games[id].error \notin PolicySkips
    /\ \A id \in DOMAIN ledger.entries : ledger.entries[id].error \notin PolicySkips

FullCommit(call) ==
    IF call.fn = "api"
    THEN insert_steam_api_games_batch(call.before, call.batch, "none").store
    ELSE insert_steam_crawling_games_batch(call.before, call.batch, "none").store

TypedErrors ==
    {"rate_limit_exceeded", "http_error", "exception", "age_verification_failed",
     "invalid_game_page", "unknown"}

\* The request of an attempt raised a network-level exception.
Raised(reply) == reply.status = 0

\* C16 (SpecFetch). Typed results only: whatever the remote answers and
\* whatever exceptions the requests raise, a fetch call of either client ends
\* with a result dict (success, or a failure with one of the error
\* categories); as long as it has not returned it is inside its attempt loop,
\* and an attempt that raised and ended the call ended it with 'exception'.
C16_TypedResults ==
    /\ fetch_result \in {"running", "success"} \cup TypedErrors
    /\ fetch_result = "running" => attempt <= max_retries
    /\ (fetch_result # "running" /\ Raised(replies[Len(replies)])) =>
           fetch_result = "exception"

\* The first request of the API client raised an exception that is no
\* throttling error, with retries left: the call returned the failure dict.
C16_Witness ==
    /\ client = "api"
    /\ max_retries = 3
    /\ Len(replies) = 1
    /\ Raised(replies[1])
    /\ replies[1].exc = "other"
    /\ fetch_result = "exception"

\* C17 (SpecFetch). Network exceptions are retried: in both clients an
\* exception on attempt k < max_retries is followed by a sleep of 2*2^k and a
\* retry; 'exception' is returned only when the attempts are exhausted.
C17_ExceptionsRetried ==
    /\ \A j \in 1..Len(replies) :
          (Raised(replies[j]) /\ j - 1 < max_retries) =>
              /\ Len(sleeps) >= j
              /\ sleeps[j] = 2 * 2^(j - 1)
    /\ fetch_result = "exception" => Len(replies) = max_retries + 1

\* One iteration of the attempt loop of client c.
AttemptOf(c, reply, k, n) ==
    IF c = "api" THEN ApiAttempt(reply, k, n) ELSE PageAttempt(reply, k, n)

\* The call of client c with max_retries n whose requests, from attempt k on,
\* have the outcomes seq: the requests made, the sleeps, the result
\* ("running" when seq ends before the call does).
RECURSIVE RunAttempts(_, _, _, _, _)
RunAttempts(c, seq, k, n, slept) ==
    IF seq = <<>> \/ k > n
    THEN [requests |-> k, sleeps |-> slept, result |-> "running"]
    ELSE IF AttemptOf(c, Head(seq), k, n).ret
    THEN [requests |-> k + 1, sleeps |-> slept,
          result |-> AttemptOf(c, Head(seq), k, n).error]
    ELSE RunAttempts(c, Tail(seq), k + 1, n,
                     Append(slept, AttemptOf(c, Head(seq), k, n).delay))

\* C18 (SpecFetch). Same retry policy for both sources: on the outcomes a
\* finished call has met (none of them a success reply, whose payload is what
\* the clients differ in), the API client and the page client make the same
\* number of requests, sleep the same delays and return the same failure.
C18_SameRetryPolicy ==
    (fetch_result # "running" /\ \A j \in 1..Len(replies) : replies[j].status # 200) =>
        RunAttempts("api", replies, 0, max_retries, <<>>)
            = RunAttempts("page", replies, 0, max_retries, <<>>)

\* C19 (Spec). A persistence error never aborts the run: no exception of a
\* batch flush leaves the loop of main_with_batch; the run never reaches the
\* except clause and never ends with the exception.
C19_RunNotAborted == pc \notin {"except", "raised"}

\* C20 (SpecRace). Bulk-insert collision is reported: when another writer has
\* inserted an ID classified NEW before the bulk insert executes, the sync
\* call returns, with that ID in its failure list and not counted a success.
C20_CollisionReported ==
    last_call.fault = "collision" =>
        /\ ~last_call.raised
        /\ last_call.rival \in SeqRange(last_call.failed)
        /\ last_call.success_count < Cardinality({d.steam_appid : d \in SeqRange(last_call.batch)})

\* The record of a batch that the hybrid batch keeps for an ID: the first one.
KeptRecord(batch, key, id) ==
    batch[CHOOSE j \in 1..Len(batch) :
              /\ batch[j][key] = id
              /\ \A k \in 1..(j - 1) : batch[k][key] # id]

\* The IDs of a batch that had a games row before the call.
ExistingIds(call, key) ==
    {d[key] : d \in SeqRange(call.batch)} \cap DOMAIN call.before.games

\* C21: after an API record of an EXISTING entity is synced (no fault, no
\* exception), the genres stored for the entity are exactly the non-empty genre
\* names of the record.
C21_GenreSnapshotDiff ==
    (last_call.fn = "api" /\ ~last_call.raised /\ last_call.fault = "none") =>
        \A id \in ExistingIds(last_call, "steam_appid") :
            {g[2] : g \in {x \in store.genres : x[1] = id}}
                = GenreNames(KeptRecord(last_call.batch, "steam_appid", id))

\* The tag rows a tag list stands for: <<app_id, name, 1-based rank>>.
RankedTags(app_id, user_tags) ==
    {<<app_id, user_tags[j], j>> : j \in 1..Len(user_tags)}

\* The tag rows stored for app_id.
TagRows(db, app_id) == {x \in db.tags : x[1] = app_id}

\* C22: after a page record with a non-empty tag list is synced (no fault, no
\* exception), the tags stored for the entity are exactly the record's tags,
\* each at its 1-based rank, no name twice; the tag rows written are none when
\* the stored (name, position) set equalled the incoming one, and else every
\* stored row (deleted) and every incoming row (inserted).
C22_TagReplacement ==
    (last_call.fn = "crawl" /\ ~last_call.raised /\ last_call.fault = "none") =>
        \A id \in {d.app_id : d \in SeqRange(last_call.batch)} :
            LET d == KeptRecord(last_call.batch, "app_id", id)
                old == TagRows(last_call.before, id)
                new == RankedTags(id, d.user_tags)
                sess == BeginSession(last_call.before)
            IN d.user_tags # <<>> =>
                  /\ TagRows(store, id) = new
                  /\ \A x, y \in TagRows(store, id) : x[2] = y[2] => x = y
                  /\ Cardinality(TagRows(store, id)) = Len(d.user_tags)
                  /\ update_user_tags(sess, id, d.user_tags).writes
                        = IF old = new THEN 0 ELSE Cardinality(old) + Cardinality(new)
                  /\ old = new => update_user_tags(sess, id, d.user_tags).db.tags
                                     = last_call.before.tags

\* C22 witness: the stored tags FPS, Multiplayer of ID 1 were replaced by a
\* record that lists them in the other order.
C22_Witness ==
    /\ last_call.fn = "crawl"
    /\ ~last_call.raised
    /\ last_call.fault = "none"
    /\ last_call.batch = <<CrawlData(1, "CS", "low", 1)>>
    /\ TagRows(last_call.before, 1) = {<<1, "FPS", 1>>, <<1, "Multiplayer", 2>>}
    /\ TagRows(store, 1) = {<<1, "Multiplayer", 1>>, <<1, "FPS", 2>>}

\* The row of a one-row-per-game table that a page record carries.
IncomingRow(table, d) ==
    IF table = "reviews" THEN ReviewRow(d.review_info, d.crawled_at)
    ELSE PricingRow(d.localized_price, d.crawled_at)

\* Every field of the stored row but the timestamp equals the incoming one.
SameFields(stored, row) ==
    \A f \in DOMAIN row \ {"updated_at"} : stored[f] = row[f]

\* C23: after a page record is synced (no fault, no exception), for the review
\* row and for the pricing row of its entity: a row exists; it is the incoming
\* row (timestamp = crawl time) when there was none before or when a compared
\* field differed; it is the row stored before, timestamp included, when every
\* compared field was equal.
C23_UnitComparison ==
    (last_call.fn = "crawl" /\ ~last_call.raised /\ last_call.fault = "none") =>
        \A table \in {"reviews", "pricing"} :
            LET d == last_call.batch[1]
                row == IncomingRow(table, d)
                before == last_call.before[table]
            IN /\ d.app_id \in DOMAIN store[table]
               /\ store[table][d.app_id] =
                     IF d.app_id \in DOMAIN before /\ SameFields(before[d.app_id], row)
                     THEN before[d.app_id]
                     ELSE row
               /\ row.updated_at = d.crawled_at

\* C23 witness: a record crawled at a later time repeats the stored review
\* and pricing values of ID 1; both rows keep their earlier timestamp.
C23_Witness ==
    /\ last_call.fn = "crawl"
    /\ ~last_call.raised
    /\ last_call.fault = "none"
    /\ last_call.batch[1].app_id = 1
    /\ last_call.batch[1].crawled_at = 2
    /\ 1 \in DOMAIN last_call.before.reviews
    /\ 1 \in DOMAIN last_call.before.pricing
    /\ SameFields(last_call.before.reviews[1], IncomingRow("reviews", last_call.batch[1]))
    /\ SameFields(last_call.before.pricing[1], IncomingRow("pricing", last_call.batch[1]))
    /\ store.reviews[1].updated_at = 1
    /\ store.pricing[1].updated_at = 1

\* C24: no games row of the store has an empty or missing title.
C24_NoUntitledEntity ==
    \A id \in DOMAIN store.games :
        store.games[id].title # "" /\ store.games[id].title # None

\* The result of the page fetch of a run for app_id.
PageCallOf(app_id) ==
    calls[CHOOSE j \in 1..Len(calls) :
              calls[j].client = "page" /\ calls[j].app_id = app_id].result

\* The IDs that no initial store holds.
NeverStored == AppIds \ DOMAIN SeedStore.games

\* C25: a new ID whose page fetch succeeded with tags and passed the review
\* floor and whose API fetch returned type 'game' with the same ID is, at the
\* end of the run, stored with the API name as title and with exactly the
\* page's tags in source order; a sync call on a batch of that one record
\* reports success_count = 1.
C25_NewEntityScenario ==
    /\ pc = "done" =>
          \A j \in 1..Len(calls) :
              (/\ calls[j].client = "api"
               /\ calls[j].app_id \in NeverStored
               /\ AfterApi(calls[j].result, calls[j].app_id) = "accept"
               /\ PageCallOf(calls[j].app_id).data.user_tags # <<>>)
              => /\ calls[j].app_id \in DOMAIN store.games
                 /\ store.games[calls[j].app_id].title = calls[j].result.data.name
                 /\ TagRows(store, calls[j].app_id)
                       = RankedTags(calls[j].app_id,
                                    PageCallOf(calls[j].app_id).data.user_tags)
    /\ (/\ pc \in {"flush_crawling", "sleep"}
        /\ last_call.fn \in {"api", "crawl"}
        /\ ~last_call.raised
        /\ Len(last_call.batch) = 1
        /\ IdOf(last_call.fn, last_call.batch[1]) \in NeverStored)
       => last_call.success_count = 1

\* C26: the loop goes on to the next ID, or ends, only from time.sleep(delay):
\* the delay is applied after every processed ID, whatever its outcome.
C26_PerIdDelay ==
    [][pc' \in {"page", "finally"} => pc = "sleep"]_vars

\* The IDs of the page fetches of the run, in the order of the calls.
RECURSIVE PageFetches(_)
PageFetches(cs) ==
    IF cs = <<>> THEN <<>>
    ELSE IF Head(cs).client = "page" THEN <<Head(cs).app_id>> \o PageFetches(Tail(cs))
    ELSE PageFetches(Tail(cs))

\* C27: without a signal the run ends in no other way than DONE, and at DONE
\* every ID of the stream has been processed exactly once, in stream order.
C27_RunCompletes ==
    /\ pc \notin {"except", "raised"}
    /\ pc = "done" => /\ processed_count = Len(app_ids)
                      /\ PageFetches(calls) = app_ids

\* C28: outside of a flush in progress, a new ID has its API data (its games
\* row) persisted exactly when its page data (its review row, written by
\* every page sync) is persisted: never one of the two without the other.
C28_FlushAllOrNothing ==
    pc # "flush_crawling" =>
        \A id \in NeverStored \cap (handed.api \cup handed.crawl) :
            id \in DOMAIN store.games <=> id \in DOMAIN store.reviews

\* C29: a run writes its failure ledger at most once; the write of the signal
\* handler and the write of the finally clause do not both happen.
C29_OneLedgerPerRun == ledger.writes <= 1

\* The bounds of a call that hold whatever the requests cost: the attempt
\* index never exceeds max_retries, there is one sleep per retry and at most
\* max_retries of them, at most max_retries + 1 attempts, and the call has
\* returned once max_retries + 1 attempts are made.
AttemptBounds ==
    /\ attempt <= max_retries
    /\ Len(sleeps) = attempt
    /\ Len(sleeps) <= max_retries
    /\ Len(replies) <= max_retries + 1
    /\ Len(replies) = max_retries + 1 => fetch_result # "running"
    /\ fetch_result = "running" => Len(replies) = attempt

\* C30 as stated: every call of either client returns after at most
\* max_retries + 1 requests and at most max_retries sleeps; the attempt index
\* only increases and never exceeds max_retries.
C30_FetchTerminates ==
    /\ AttemptBounds
    /\ Requests(client, replies) <= max_retries + 1

\* C30, amended: every call returns after at most max_retries + 1 attempts and
\* at most max_retries sleeps, the attempt index only increases and never
\* exceeds max_retries; an attempt of the API client is one request, an attempt
\* of the page client is one request and up to two more when the answer is an
\* age gate, so a page call makes at most 3 * (max_retries + 1) requests.
C30_FetchTerminatesAmended ==
    /\ [](/\ AttemptBounds
          /\ \A j \in 1..Len(replies) :
                RequestsOf(client, replies[j]) <= (IF client = "page" THEN 3 ELSE 1)
          /\ Requests(client, replies)
                <= (IF client = "page" THEN 3 ELSE 1) * (max_retries + 1))
    /\ [][attempt' >= attempt]_vars

\* C30 witness: a page call that used every retry and met the age gate in its
\* last attempt has returned, after more requests than attempts.
C30_Witness ==
    /\ client = "page"
    /\ max_retries = MaxRetries
    /\ fetch_result # "running"
    /\ Len(replies) = max_retries + 1
    /\ Len(sleeps) = max_retries
    /\ replies[Len(replies)].gate = 2
    /\ Requests(client, replies) = max_retries + 3

\* The IDs of the records of a list.
IdsOf(games_data, key) == {d[key] : d \in SeqRange(games_data)}

\* The number of times a record occurs in a list.
Occurrences(games_data, d) ==
    Cardinality({j \in 1..Len(games_data) : games_data[j] = d})

\* C31: in a sync call, the NEW and the EXISTING list of the deduplicated
\* batch are disjoint and hold every deduplicated record exactly once; NEW
\* holds exactly the IDs without a games row at the query. After a call with
\* no fault and no exception the row of a NEW record is the one the bulk
\* insert builds, with its children, and the row of an EXISTING record is the
\* stored one with the per-record update applied.
C31_Partition ==
    last_call.fn \in {"api", "crawl"} =>
        LET key == IF last_call.fn = "api" THEN "steam_appid" ELSE "app_id"
            sess == BeginSession(last_call.before)
            dedup == Deduplicate(last_call.batch, key)
            new == NewGames(sess, dedup, key)
            existing == ExistingGames(sess, dedup, key)
            clean == ~last_call.raised /\ last_call.fault = "none"
        IN /\ IdsOf(new, key) \cap IdsOf(existing, key) = {}
           /\ Len(new) + Len(existing) = Len(dedup)
           /\ \A d \in SeqRange(dedup) :
                 Occurrences(new, d) + Occurrences(existing, d) = 1
           /\ IdsOf(new, key) = IdsOf(dedup, key) \ DOMAIN last_call.before.games
           /\ clean /\ last_call.fn = "api" =>
                 /\ \A d \in SeqRange(new) :
                       /\ store.games[d.steam_appid] = ApiRow(d)
                       /\ {g[2] : g \in {x \in store.genres : x[1] = d.steam_appid}}
                             = GenreNames(d)
                 /\ \A d \in SeqRange(existing) :
                       store.games[d.steam_appid]
                          = DiffUpdate(last_call.before.games[d.steam_appid], ApiRow(d))
           /\ clean /\ last_call.fn = "crawl" =>
                 /\ \A d \in SeqRange(new) :
                       /\ store.games[d.app_id] = CrawlRow(d)
                       /\ TagRows(store, d.app_id) = RankedTags(d.app_id, d.user_tags)
                       /\ store.reviews[d.app_id] = ReviewRow(d.review_info, d.crawled_at)
                 /\ \A d \in SeqRange(existing) :
                       store.games[d.app_id]
                          = [last_call.before.games[d.app_id] EXCEPT !.title = d.title]

\* C31 witness: a call on a batch of two records, one of an ID with a games
\* row and one of an ID without, went through.
C31_Witness ==
    /\ last_call.fn = "api"
    /\ ~last_call.raised
    /\ last_call.fault = "none"
    /\ Len(last_call.batch) = 2
    /\ last_call.batch[1].steam_appid = 1
    /\ last_call.batch[2].steam_appid = 2
    /\ 1 \in DOMAIN last_call.before.games
    /\ 2 \notin DOMAIN last_call.before.games
    /\ 2 \in DOMAIN store.games

\* C32: an ID whose API fetch succeeded (HTTP 200) without a data object for
\* it is in the failure map with the error no_data_from_api.
C32_AbsentDataIsNoData ==
    \A j \in 1..Len(calls) :
        (/\ calls[j].client = "api"
         /\ calls[j].result.success
         /\ calls[j].result.data = EmptyDict)
        => /\ calls[j].app_id \in DOMAIN global_failed_games
           /\ global_failed_games[calls[j].app_id].error = "no_data_from_api"

\* C33: in main_without_batch, an accepted ID whose save did not persist the
\* record (a single insert returned False, or the save raised) is in the
\* failure map as db_failed / db_insert_failed and the counter of the insert
\* that failed is not incremented.
C33_SingleModeDbFailures ==
    last_call.fn = "single" =>
        LET app_id == last_call.batch[1].app_id
        IN /\ (last_call.raised \/ ~last_call.crawling_ok \/ ~last_call.api_ok) =>
                 /\ app_id \in DOMAIN global_failed_games
                 /\ global_failed_games[app_id].type = "db_failed"
                 /\ global_failed_games[app_id].error = "db_insert_failed"
           /\ ~last_call.crawling_ok =>
                 crawling_success_count = last_call.crawling_before
           /\ ~last_call.api_ok => api_success_count = last_call.api_before

\* C34: the statement after the attempt loop is never reached: while a call
\* is running its attempt index is within the loop's range, every attempt
\* made so far but the last one slept (so it continued with an index below
\* max_retries), and no call ends with the error 'unknown'.
C34_UnknownUnreachable ==
    /\ ~(fetch_result = "running" /\ attempt > max_retries)
    /\ fetch_result # "unknown"
    /\ fetch_result = "running" => Len(replies) = Len(sleeps)
    /\ fetch_result # "running" => Len(replies) = Len(sleeps) + 1
    /\ Len(sleeps) <= max_retries

\* C34 witness: an API call that retried max_retries times got an exception
\* in its last attempt and returned it.
C34_Witness ==
    /\ client = "api"
    /\ max_retries = MaxRetries
    /\ attempt = max_retries
    /\ Len(replies) = max_retries + 1
    /\ replies[Len(replies)].status = 0
    /\ fetch_result = "exception"

\* C35 (SpecSync). Sync accounting: a hybrid batch call that returns reports
\* every deduplicated record of its batch either in success_count or by one
\* entry of the failure list, so the two add up to the number of
\* deduplicated records.
C35_SyncAccounting ==
    (last_call.fn \in {"api", "crawl"} /\ ~last_call.raised) =>
        last_call.success_count + Len(last_call.failed) =
            Len(Deduplicate(last_call.batch,
                            IF last_call.fn = "api" THEN "steam_appid" ELSE "app_id"))

\* The session the block of a sync call leaves to __exit__.
BlockSession(call) ==
    IF call.fn = "api"
    THEN insert_steam_api_games_hybrid_batch(BeginSession(call.before), call.batch,
                                             call.fault).sess
    ELSE insert_steam_crawling_games_hybrid_batch(BeginSession(call.before), call.batch,
                                                  call.fault).sess

\* C36 (SpecSync). Transaction scope of GameInserter: the block of a sync call
\* exits without an exception; __exit__ then makes the writes of the block
\* durable by its commit and by nothing else, and closes the session.
C36_TransactionScope ==
    last_call.fn \in {"api", "crawl"} =>
        /\ ~last_call.raised => store = BlockSession(last_call).db
        /\ last_call.raised => store = last_call.before
        /\ ClosedByExit(last_call)

\* C37 (Spec). Buffers move in lockstep: in every state of the loop the API
\* buffer and the crawl buffer have the same length and, position by
\* position, hold the records of the same ID; so a record is appended to
\* both or to neither and both are cleared together.
C37_BuffersInLockstep ==
    /\ Len(api_batch) = Len(crawling_batch)
    /\ \A k \in 1..Len(api_batch) : api_batch[k].steam_appid = crawling_batch[k].app_id
    /\ \A k \in 1..Len(api_batch) : accepted[Len(accepted) - Len(api_batch) + k]
                                       = crawling_batch[k].app_id

\* C37 witness: both buffers hold the records of two IDs when the flush
\* condition is evaluated.
C37_Witness ==
    /\ pc = "flush"
    /\ Len(api_batch) = 2
    /\ Len(crawling_batch) = 2
    /\ api_batch[1].steam_appid # api_batch[2].steam_appid

\* C38 (Spec). Buffer bound: at the start of every iteration the API buffer
\* holds fewer than batch_size records, and no sync call of a flush gets more
\* than batch_size records.
C38_BufferBound ==
    /\ batch_size >= 1
    /\ pc = "page" => Len(api_batch) < batch_size
    /\ Len(api_batch) <= batch_size
    /\ last_call.fn \in {"api", "crawl"} => Len(last_call.batch) <= batch_size

\* C38 witness: an iteration starts with a record in the buffer, batch_size
\* being 2.
C38_Witness ==
    /\ pc = "page"
    /\ i = 2
    /\ batch_size = 2
    /\ Len(api_batch) = 1

\* C39 (SpecSyncSparse). Empty child data leaves stored children unchanged:
\* after the sync of one page-source record of an EXISTING game, an empty tag
\* list has deleted no tag row, an empty review_info has left the reviews
\* rows as they were and an empty localized_price the pricing rows.
C39_EmptyChildDataKept ==
    (/\ last_call.fn = "crawl"
     /\ last_call.batch[1].app_id \in DOMAIN last_call.before.games) =>
        LET d == last_call.batch[1]
        IN /\ d.user_tags = <<>> => last_call.before.tags \subseteq store.tags
           /\ d.review_info = EmptyDict => store.reviews = last_call.before.reviews
           /\ d.localized_price = EmptyDict => store.pricing = last_call.before.pricing

\* C39 witness: a record without tags, review_info and localized_price was
\* synced for a game that has rows of all three kinds; the call succeeded and
\* the rows are still there.
C39_Witness ==
    /\ last_call.fn = "crawl"
    /\ last_call.fault = "none"
    /\ ~last_call.raised
    /\ last_call.success_count = 1
    /\ last_call.batch[1].app_id \in DOMAIN last_call.before.games
    /\ last_call.batch[1].user_tags = <<>>
    /\ last_call.batch[1].review_info = EmptyDict
    /\ last_call.batch[1].localized_price = EmptyDict
    /\ \E t \in last_call.before.tags : t[1] = last_call.batch[1].app_id
    /\ last_call.batch[1].app_id \in DOMAIN store.reviews
    /\ last_call.batch[1].app_id \in DOMAIN store.pricing

\* C40 (SpecTags). Resumable progress sets stay disjoint: in every state of
\* crawl_all_games no ID is in both completed_ids and failed_ids, every ID
\* passed to crawl_batch is in one of them once its batch was processed, and
\* no ID of the loaded progress is fetched again.
C40_ProgressSetsDisjoint ==
    /\ completed_ids \cap failed_ids = {}
    /\ \A k \in 1..Len(fetched) : fetched[k] \in completed_ids \cup failed_ids
    /\ \A k \in 1..Len(fetched) :
          fetched[k] \notin loaded.completed_ids \cup loaded.failed_ids

====
